---- MODULE Spec2Model ----
(***************************************************************************)
(* A model of the lapin AMQP client core: the per-channel state machine    *)
(* (src/src/channel.rs) and the I/O loop (src/src/io_loop.rs), together    *)
(* with the collaborators they call (frame queue, acknowledgements,        *)
(* returned messages, id sequence, buffer), which are modelled from the    *)
(* specification where their source is not part of the tree.               *)
(***************************************************************************)
EXTENDS Integers, Sequences, FiniteSets, TLC

\* ------------------------------------------------------------------ bounds
MaxPublish == 2      \* basic_publish calls in a behaviour
MaxSends == 1        \* other method frames callers enqueue in a behaviour
MaxSync == 3         \* synchronous methods callers send in a behaviour
MaxInbound == 4      \* frames the server sends in a behaviour
MaxWaits == 1        \* wait_for_confirms calls in a behaviour
MaxBodySize == 2     \* largest content size the server announces or sends
MaxBeats == 2        \* number of intervals the heartbeat thread sleeps through
MaxStream == 3       \* frames the server sends on the inbound stream
MaxTune == 2         \* largest limit a side asks for when tuning
MinFrameSize == 10   \* stands for the 8192 of IoLoop::new, scaled down
FramesStorage == 2   \* stands for FRAMES_STORAGE (32), scaled down

\* ------------------------------------------------------- program constants
FrameOverhead == 8           \* "a content body frame 8 bytes of overhead"
PRECONDITIONFAILED == 406    \* AMQPSoftError::PRECONDITIONFAILED.get_id()
BasicClassId == 60           \* class id of basic.*
BasicAckMethodId == 80       \* method id of basic.ack
BasicNackMethodId == 120     \* method id of basic.nack
U16Max == 65535              \* u16::max_value()
U32Max == 2147483647         \* u32::max_value(), as the largest integer held
UsizeMax == 2147483647       \* usize::max_value(), as the largest integer held

ChannelIds == {1, 2}
Threads == {1, 2}
FrameMaxValues == {10}               \* negotiated frame_max values explored
PublishPayloads == {<<>>, <<1, 2>>}

VARIABLES
  frame_max,         \* connection.configuration().frame_max()
  conn_state,        \* ConnectionState of the connection
  channel_max,       \* connection.configuration().channel_max()
  heartbeat,         \* connection.configuration().heartbeat()
  connect_wait,      \* the Wait of Connection::connect: its resolutions, in order
  blocked,           \* ConnectionStatus::blocked
  chan_state,        \* per channel: ChannelState (with its content context)
  confirm,           \* per channel: ChannelStatus confirm flag
  delivery_tag,      \* per channel: IdSequence<DeliveryTag>, the next id
  pending,           \* per channel: Acknowledgements, the pending tags
  confirmed,         \* per channel: the tags resolved, each with its outcome
  queues,            \* per channel: Queues, its consumer and in-flight delivery
  returned_messages, \* per channel: ReturnedMessages
  frames,            \* FrameQueue: the HIGH and the LOW queue
  expected_replies,  \* reply registry: per channel, a FIFO of expectations
  status,            \* IoLoop::status
  frame_size,        \* IoLoop::frame_size
  send_buffer,       \* IoLoop::send_buffer
  can_write,         \* IoLoop::can_write
  has_data,          \* IoLoop::has_data
  send_heartbeat,    \* IoLoop::send_heartbeat, the flag the heartbeat thread raises
  hb_handle,         \* IoLoop::hb_handle: the heartbeat thread was started
  continue_ready,    \* the CONTINUE token is raised
  io_thread,         \* the closure of IoLoop::run: in its loop, or what it returned
  hb_joined,         \* IoLoop::run has unparked and joined the heartbeat thread
  last_take,         \* history: the last frame next_frame() returned, its outcome
  can_read,          \* IoLoop::can_read
  receive_buffer,    \* IoLoop::receive_buffer: its position and end
  receive_data,      \* the bytes between position and end of the receive buffer
  net,               \* the bytes the server sent that were not read yet
  arrived,           \* how many of them have reached the socket
  readable_event,    \* the poller holds the readable event of the socket
  sent_in,           \* history: number of frames the server sent
  dispatched,        \* history: the frames passed to handle_frame, in order
  data_ready,        \* readiness of the DATA token, set by send_frame
  pc,                \* per caller thread: where it is in its call
  cur,               \* per caller thread: the locals of its call
  wire,              \* history: frames in the order they were serialized
  requeued,          \* history: the expectations of the frames ever requeued
  enqueued,          \* history: number of expectations enqueued so far
  replied,           \* history: per channel, expectations in resolution order
  unresolved,        \* history: expectations taken off the registry and dropped
  failed,            \* history: expectations failed, with the error and its cause
  publishes,         \* history: per publish, its channel, tag and mode
  tag_log,           \* history: per channel, the tags in assignment order
  confirm_waits,     \* history: the Waits wait_for_confirms returned
  io_err,            \* the Err a frame handler returned to IoLoop::parse
  handler,           \* the frame handler the I/O thread is inside of
  last_in,           \* history: the last frame handled and what came of it
  last_conn,         \* history: the last connection-level event handled
  content,           \* history: per channel, the last header's size, bytes since
  chan_errors,       \* history: the Err values frame handlers returned
  completed,         \* history: per channel, deliveries handed off as complete
  inbound,           \* number of frames received from the server so far
  sends,             \* number of other method frames callers enqueued so far
  beats              \* history: number of times the heartbeat flag was raised

chanVars == <<chan_state, confirm, delivery_tag, pending, confirmed, queues,
              returned_messages>>
queueVars == <<frames, expected_replies, data_ready>>
ioVars == <<status, frame_size, send_buffer, can_write, has_data, io_err,
            handler, send_heartbeat, hb_handle, continue_ready, io_thread,
            hb_joined, can_read, receive_buffer, receive_data, net, arrived,
            readable_event>>
threadVars == <<pc, cur>>
histVars == <<wire, requeued, enqueued, replied, unresolved, failed,
              publishes, tag_log, confirm_waits,
              chan_errors, completed, inbound, sends, last_in, last_conn,
              content, beats, last_take, sent_in, dispatched>>
connVars == <<frame_max, channel_max, heartbeat, conn_state, connect_wait,
              blocked>>

vars == <<connVars, chanVars, queueVars, ioVars, threadVars,
          histVars>>

\* ----------------------------------------------------------------- helpers
Max(a, b) == IF a >= b THEN a ELSE b

Min(a, b) == IF a <= b THEN a ELSE b

\* ------------------------------------------------------------------ frames
NoReply == [kind |-> "none", id |-> 0]

\* the arguments of a method that the model looks at (those of channel.close)
NoArg == [code |-> 0, class_id |-> 0, method_id |-> 0]

Reply(kind, n) == [kind |-> kind, id |-> n]

MethodFrame(ch, m, p, arg, reply) ==
  [type |-> "Method", priority |-> "HIGH", channel |-> ch, method |-> m, pub |-> p, arg |-> arg,
   body_size |-> 0, payload |-> <<>>, reply |-> reply]

HeaderFrame(ch, p, size) ==
  [type |-> "Header", priority |-> "LOW", channel |-> ch, method |-> "-", pub |-> p, arg |-> NoArg,
   body_size |-> size, payload |-> <<>>, reply |-> NoReply]

BodyFrame(ch, p, chunk) ==
  [type |-> "Body", priority |-> "LOW", channel |-> ch, method |-> "-", pub |-> p, arg |-> NoArg,
   body_size |-> 0, payload |-> chunk, reply |-> NoReply]

\* serialized size of a frame: the frame overhead plus its payload
FrameSize(f) == FrameOverhead + Len(f.payload)

\* ------------------------------------------------------------- FrameQueue
\* push(priority, channel_id, frame, expected_reply): FIFO within a priority
FramesPush(q, f) == [q EXCEPT ![f.priority] = Append(@, f)]

\* the frame the next pop returns: the oldest HIGH frame, else the oldest LOW
FramesNext(q) == IF q.HIGH # <<>> THEN Head(q.HIGH) ELSE Head(q.LOW)

FramesPop(q) ==
  IF q.HIGH # <<>> THEN [q EXCEPT !.HIGH = Tail(@)] ELSE [q EXCEPT !.LOW = Tail(@)]

FramesEmpty(q) == q.HIGH = <<>> /\ q.LOW = <<>>

\* requeue_frame(send_id, frame): back in front of its own priority
FramesRequeue(q, f) == [q EXCEPT ![f.priority] = <<f>> \o @]

\* mark_sent(send_id): the frame's expected reply enters the channel's registry
MarkSent(reg, f) ==
  IF f.reply = NoReply THEN reg
  ELSE [reg EXCEPT ![f.channel] = Append(@, f.reply)]

\* ------------------------------------------------------------------ Buffer
EmptyBuffer == [position |-> 0, end |-> 0]

Capacity == FramesStorage * frame_size

available_data(b) == b.end - b.position

available_space(b) == Capacity - b.end

fill(b, n) == [b EXCEPT !.end = @ + n]

consume(b, n) == [b EXCEPT !.position = @ + n]

shift(b) == [position |-> 0, end |-> b.end - b.position]

shift_unless_available(b, n) == IF available_space(b) < n THEN shift(b) ELSE b

\* ------------------------------------------------------------- IdSequence
\* next(): the current id, and the sequence advanced by one
IdSequenceNext(id) == [value |-> id, id |-> id + 1]

\* ------------------------------------------------------------ ChannelState
Connected == [s |-> "Connected", q |-> "-", t |-> "-", remaining |-> 0]

Closing == [s |-> "Closing", q |-> "-", t |-> "-", remaining |-> 0]

Closed == [s |-> "Closed", q |-> "-", t |-> "-", remaining |-> 0]

Error == [s |-> "Error", q |-> "-", t |-> "-", remaining |-> 0]

WillReceiveContent(q, t) ==
  [s |-> "WillReceiveContent", q |-> q, t |-> t, remaining |-> 0]

ReceivingContent(q, t, n) ==
  [s |-> "ReceivingContent", q |-> q, t |-> t, remaining |-> n]

\* ChannelStatus::is_connected: the channel may send methods
is_connected(st) == st.s \notin {"Initial", "Closing", "Closed", "Error"}

\* ----------------------------------------------------------- caller side
Idle == [ch |-> 0, pub |-> 0, payload |-> <<>>, chunks |-> <<>>, tag |-> 0]

RECURSIVE Chunks(_, _)
\* slice.chunks(n): pieces of n elements, the last one possibly shorter
Chunks(slice, n) ==
  IF slice = <<>> THEN <<>>
  ELSE <<SubSeq(slice, 1, Min(n, Len(slice)))>>
       \o Chunks(SubSeq(slice, Min(n, Len(slice)) + 1, Len(slice)), n)

\* Connection::send_frame: push on the frame queue and raise the DATA token
send_frame(f) ==
  /\ frames' = FramesPush(frames, f)
  /\ data_ready' = TRUE
  /\ enqueued' = IF f.reply = NoReply THEN enqueued ELSE enqueued + 1

\* basic_publish: the channel must be connected; the method frame is
\* enqueued, and the rest of the call (on_basic_publish_sent) follows
basic_publish(t, ch, payload) ==
  /\ pc[t] = "idle"
  /\ Len(publishes) < MaxPublish
  /\ is_connected(chan_state[ch])
  /\ send_frame(MethodFrame(ch, "basic.publish", Len(publishes) + 1, NoArg, NoReply))
  /\ publishes' = Append(publishes, [channel |-> ch, tag |-> 0, mode |-> "sent",
                                     payload |-> payload])
  /\ pc' = [pc EXCEPT ![t] = "publish_sent"]
  /\ cur' = [cur EXCEPT ![t] = [ch |-> ch, pub |-> Len(publishes) + 1,
                                payload |-> payload, chunks |-> <<>>, tag |-> 0]]
  /\ UNCHANGED <<frame_max, conn_state, channel_max, heartbeat, connect_wait,
                 blocked, chan_state, confirm, delivery_tag, pending,
                 confirmed, queues, returned_messages, expected_replies,
                 status, frame_size, send_buffer, can_write, has_data,
                 send_heartbeat, hb_handle, continue_ready, io_thread,
                 hb_joined, last_take, can_read, receive_buffer,
                 receive_data, net, arrived, readable_event, sent_in,
                 dispatched, wire, requeued, replied, unresolved, failed,
                 tag_log, confirm_waits, io_err, handler, last_in, last_conn,
                 content, chan_errors, completed, inbound, sends, beats>>

\* on_basic_publish_sent with the tag read but the sequence not advanced
on_basic_publish_sent_stale(t) ==
  /\ pc[t] = "publish_sent"
  /\ LET ch == cur[t].ch
         nx == IdSequenceNext(delivery_tag[ch])
     IN IF confirm[ch]
        THEN /\ pending' = [pending EXCEPT ![ch] = @ \cup {nx.value}]
             /\ cur' = [cur EXCEPT ![t].tag = nx.value]
             /\ tag_log' = [tag_log EXCEPT ![ch] = Append(@, nx.value)]
             /\ publishes' = [publishes EXCEPT ![cur[t].pub].tag = nx.value,
                                               ![cur[t].pub].mode = "confirm"]
             /\ UNCHANGED delivery_tag
        ELSE /\ publishes' = [publishes EXCEPT ![cur[t].pub].mode = "plain"]
             /\ UNCHANGED <<delivery_tag, pending, cur, tag_log>>
  /\ pc' = [pc EXCEPT ![t] = "send_header"]
  /\ UNCHANGED <<frame_max, conn_state, channel_max, heartbeat, connect_wait,
                 blocked, chan_state, confirm, confirmed, queues,
                 returned_messages, frames, expected_replies, status,
                 frame_size, send_buffer, can_write, has_data,
                 send_heartbeat, hb_handle, continue_ready, io_thread,
                 hb_joined, last_take, can_read, receive_buffer,
                 receive_data, net, arrived, readable_event, sent_in,
                 dispatched, data_ready, wire, requeued, enqueued, replied,
                 unresolved, failed, confirm_waits, io_err, handler, last_in,
                 last_conn, content, chan_errors, completed, inbound, sends,
                 beats>>

\* on_basic_publish_sent: in confirm mode the next tag is taken and
\* registered as pending; send_content_frames follows
on_basic_publish_sent(t) ==
  /\ pc[t] = "publish_sent"
  /\ LET ch == cur[t].ch
         nx == IdSequenceNext(delivery_tag[ch])
     IN IF confirm[ch]
        THEN /\ delivery_tag' = [delivery_tag EXCEPT ![ch] = nx.id]
             /\ pending' = [pending EXCEPT ![ch] = @ \cup {nx.value}]
             /\ cur' = [cur EXCEPT ![t].tag = nx.value]
             /\ tag_log' = [tag_log EXCEPT ![ch] = Append(@, nx.value)]
             /\ publishes' = [publishes EXCEPT ![cur[t].pub].tag = nx.value,
                                               ![cur[t].pub].mode = "confirm"]
        ELSE /\ publishes' = [publishes EXCEPT ![cur[t].pub].mode = "plain"]
             /\ UNCHANGED <<delivery_tag, pending, cur, tag_log>>
  /\ pc' = [pc EXCEPT ![t] = "send_header"]
  /\ UNCHANGED <<frame_max, conn_state, channel_max, heartbeat, connect_wait,
                 blocked, chan_state, confirm, confirmed, queues,
                 returned_messages, frames, expected_replies, status,
                 frame_size, send_buffer, can_write, has_data,
                 send_heartbeat, hb_handle, continue_ready, io_thread,
                 hb_joined, last_take, can_read, receive_buffer,
                 receive_data, net, arrived, readable_event, sent_in,
                 dispatched, data_ready, wire, requeued, enqueued, replied,
                 unresolved, failed, confirm_waits, io_err, handler, last_in,
                 last_conn, content, chan_errors, completed, inbound, sends,
                 beats>>

\* a - b on usize: below 0 the subtraction panics where overflow is checked
\* and wraps around where it is not
usize_sub(a, b) ==
  IF a >= b THEN {[ok |-> TRUE, value |-> a - b]}
  ELSE {[ok |-> FALSE, value |-> 0],
        [ok |-> TRUE, value |-> UsizeMax - (b - a - 1)]}

\* send_content_frames: the Header frame, LOW, and the chunks of the payload,
\* of frame_max - 8 bytes; slice.chunks panics on a chunk size of 0
send_content_header(t) ==
  /\ pc[t] = "send_header"
  /\ send_frame(HeaderFrame(cur[t].ch, cur[t].pub, Len(cur[t].payload)))
  /\ \E n \in usize_sub(frame_max, FrameOverhead) :
       IF ~n.ok \/ n.value = 0
       THEN /\ pc' = [pc EXCEPT ![t] = "panicked"]
            /\ UNCHANGED cur
       ELSE LET chunks == Chunks(cur[t].payload, n.value)
            IN /\ cur' = [cur EXCEPT ![t] = IF chunks = <<>> THEN Idle
                                            ELSE [@ EXCEPT !.chunks = chunks]]
               /\ pc' = [pc EXCEPT ![t] = IF chunks = <<>> THEN "idle"
                                          ELSE "send_body"]
  /\ UNCHANGED <<frame_max, conn_state, channel_max, heartbeat, connect_wait,
                 blocked, chan_state, confirm, delivery_tag, pending,
                 confirmed, queues, returned_messages, expected_replies,
                 status, frame_size, send_buffer, can_write, has_data,
                 send_heartbeat, hb_handle, continue_ready, io_thread,
                 hb_joined, last_take, can_read, receive_buffer,
                 receive_data, net, arrived, readable_event, sent_in,
                 dispatched, wire, requeued, replied, unresolved, failed,
                 publishes, tag_log, confirm_waits, io_err, handler, last_in,
                 last_conn, content, chan_errors, completed, inbound, sends,
                 beats>>

\* send_content_frames: one Body frame per chunk, LOW, in order
send_content_body(t) ==
  /\ pc[t] = "send_body"
  /\ send_frame(BodyFrame(cur[t].ch, cur[t].pub, Head(cur[t].chunks)))
  /\ cur' = [cur EXCEPT ![t] = IF Tail(@.chunks) = <<>> THEN Idle
                                ELSE [@ EXCEPT !.chunks = Tail(@)]]
  /\ pc' = [pc EXCEPT ![t] = IF Tail(cur[t].chunks) = <<>> THEN "idle"
                             ELSE "send_body"]
  /\ UNCHANGED <<frame_max, conn_state, channel_max, heartbeat, connect_wait,
                 blocked, chan_state, confirm, delivery_tag, pending,
                 confirmed, queues, returned_messages, expected_replies,
                 status, frame_size, send_buffer, can_write, has_data,
                 send_heartbeat, hb_handle, continue_ready, io_thread,
                 hb_joined, last_take, can_read, receive_buffer,
                 receive_data, net, arrived, readable_event, sent_in,
                 dispatched, wire, requeued, replied, unresolved, failed,
                 publishes, tag_log, confirm_waits, io_err, handler, last_in,
                 last_conn, content, chan_errors, completed, inbound, sends,
                 beats>>

\* the reply each synchronous method registers
ReplyKind(m) ==
  CASE m = "confirm.select" -> "AwaitingConfirmSelectOk"
    [] m = "queue.declare" -> "AwaitingQueueDeclareOk"
    [] m = "basic.get" -> "AwaitingBasicGetOk"
    [] m = "queue.bind" -> "AwaitingQueueBindOk"
    [] m = "channel.close" -> "AwaitingChannelCloseOk"

\* the encoded arguments of a method: the queue name of queue.declare
MethodArguments(m) == IF m = "queue.declare" THEN <<1, 2, 3, 4, 5, 6>> ELSE <<>>

\* a synchronous method (confirm_select, queue_declare, basic_get): one HIGH
\* method frame carrying its expected reply
sync_method(t, ch, m) ==
  /\ pc[t] = "idle"
  /\ sends < MaxSync
  /\ is_connected(chan_state[ch])
  /\ send_frame([MethodFrame(ch, m, 0, NoArg, Reply(ReplyKind(m), enqueued + 1))
                   EXCEPT !.payload = MethodArguments(m)])
  /\ sends' = sends + 1
  /\ UNCHANGED <<frame_max, conn_state, channel_max, heartbeat, connect_wait,
                 blocked, chan_state, confirm, delivery_tag, pending,
                 confirmed, queues, returned_messages, expected_replies,
                 status, frame_size, send_buffer, can_write, has_data,
                 send_heartbeat, hb_handle, continue_ready, io_thread,
                 hb_joined, last_take, can_read, receive_buffer,
                 receive_data, net, arrived, readable_event, sent_in,
                 dispatched, pc, cur, wire, requeued, replied, unresolved,
                 failed, publishes, tag_log, confirm_waits, io_err, handler,
                 last_in, last_conn, content, chan_errors, completed,
                 inbound, beats>>

\* basic_ack of a delivery by the caller: one HIGH method frame, no reply
basic_ack(t, ch) ==
  /\ pc[t] = "idle"
  /\ sends < MaxSends
  /\ is_connected(chan_state[ch])
  /\ send_frame(MethodFrame(ch, "basic.ack", 0, NoArg, NoReply))
  /\ sends' = sends + 1
  /\ UNCHANGED <<frame_max, conn_state, channel_max, heartbeat, connect_wait,
                 blocked, chan_state, confirm, delivery_tag, pending,
                 confirmed, queues, returned_messages, expected_replies,
                 status, frame_size, send_buffer, can_write, has_data,
                 send_heartbeat, hb_handle, continue_ready, io_thread,
                 hb_joined, last_take, can_read, receive_buffer,
                 receive_data, net, arrived, readable_event, sent_in,
                 dispatched, pc, cur, wire, requeued, replied, unresolved,
                 failed, publishes, tag_log, confirm_waits, io_err, handler,
                 last_in, last_conn, content, chan_errors, completed,
                 inbound, beats>>

\* -------------------------------------------------------------- I/O loop
NoErr == "none"

\* IoLoop::should_continue
continues(st, cs) ==
  /\ st = "Initial" \/ cs = "Connected" \/ cs = "Closing"
  /\ st # "Stop"
  /\ cs # "Error"

should_continue == continues(status, conn_state)

\* the I/O thread is not inside a frame handler
NoHandler == [at |-> "none", channel |-> 0, method_id |-> 0]

\* the I/O thread is inside its loop, between two frames
io_running == should_continue /\ io_err = NoErr /\ handler = NoHandler

\* Connection::set_error: the connection and every channel it still holds
\* are in Error (a Closed channel was removed from it)
connection_set_error ==
  /\ conn_state' = "Error"
  /\ chan_state' = [c \in ChannelIds |->
                      IF chan_state[c] = Closed THEN Closed ELSE Error]

\* gen_frame: the frame fits the space left in the buffer, or it does not
gen_frame(space, f) == IF FrameSize(f) <= space THEN "Ok" ELSE "BufferTooSmall"

\* IoLoop::serialize marking the frame sent before looking at what gen_frame
\* returned
serialize_marks_first(q, b, reg, hd) ==
  IF FramesEmpty(q)
  THEN [frames |-> q, buf |-> b, reg |-> reg, has_data |-> FALSE, sent |-> <<>>,
        requeued |-> {}, take |-> "none"]
  ELSE LET f == FramesNext(q)
       IN IF gen_frame(available_space(b), f) = "Ok"
          THEN [frames |-> FramesPop(q), buf |-> fill(b, FrameSize(f)),
                reg |-> MarkSent(reg, f), has_data |-> hd, sent |-> <<f>>,
                requeued |-> {}, take |-> "sent"]
          ELSE [frames |-> FramesRequeue(FramesPop(q), f), buf |-> shift(b),
                reg |-> MarkSent(reg, f), has_data |-> hd, sent |-> <<>>,
                requeued |-> {f.reply.id} \ {0}, take |-> "requeued"]

\* IoLoop::serialize dropping the frame that does not fit
serialize_drops(q, b, reg, hd) ==
  IF FramesEmpty(q)
  THEN [frames |-> q, buf |-> b, reg |-> reg, has_data |-> FALSE, sent |-> <<>>,
        requeued |-> {}, take |-> "none"]
  ELSE LET f == FramesNext(q)
       IN IF gen_frame(available_space(b), f) = "Ok"
          THEN [frames |-> FramesPop(q), buf |-> fill(b, FrameSize(f)),
                reg |-> MarkSent(reg, f), has_data |-> hd, sent |-> <<f>>,
                requeued |-> {}, take |-> "sent"]
          ELSE [frames |-> FramesPop(q), buf |-> shift(b),
                reg |-> reg, has_data |-> hd, sent |-> <<>>,
                requeued |-> {f.reply.id} \ {0}, take |-> "requeued"]

\* IoLoop::serialize: take the next frame; write it to the send buffer and
\* mark it sent, or requeue it and compact the buffer when it does not fit
serialize(q, b, reg, hd) ==
  IF FramesEmpty(q)
  THEN [frames |-> q, buf |-> b, reg |-> reg, has_data |-> FALSE, sent |-> <<>>,
        requeued |-> {}, take |-> "none"]
  ELSE LET f == FramesNext(q)
       IN IF gen_frame(available_space(b), f) = "Ok"
          THEN [frames |-> FramesPop(q), buf |-> fill(b, FrameSize(f)),
                reg |-> MarkSent(reg, f), has_data |-> hd, sent |-> <<f>>,
                requeued |-> {}, take |-> "sent"]
          ELSE [frames |-> FramesRequeue(FramesPop(q), f), buf |-> shift(b),
                reg |-> reg, has_data |-> hd, sent |-> <<>>,
                requeued |-> {f.reply.id} \ {0}, take |-> "requeued"]


\* what gen_frame can report for a frame: a size or BufferTooSmall, by the
\* space left ("Ok"), or InvalidOffset, CustomError, NotYetImplemented
GenOutcomes == {"Ok", "GenError"}

\* no frame was taken from the frame queue yet
NoTake == [frame |-> [type |-> "none"], outcome |-> "none", flip |-> FALSE]

\* the record of a frame taken by next_frame() and what became of it
Take(f, outcome) == [frame |-> f, outcome |-> outcome, flip |-> ~last_take.flip]

\* what socket.write can return for n bytes offered: a count, or an error
WriteResults(n) ==
  {[kind |-> "Ok", n |-> n], [kind |-> "Partial", n |-> Min(1, n)],
   [kind |-> "WouldBlock", n |-> 0], [kind |-> "Error", n |-> 0]}

\* a socket that takes every byte offered
Writable == {"Ok"}

\* a socket that may also take part of the bytes, block or fail
Unreliable == {"Ok", "Partial", "WouldBlock", "Error"}

\* a socket that takes every byte offered, or blocks, or fails
Blocking == {"Ok", "WouldBlock", "Error"}

\* no connection-level event was handled yet
NoEvent ==
  [method |-> "-", before |-> "-", after |-> "-", wait |-> <<>>,
   queue |-> <<>>, client |-> [channel_max |-> 0, frame_max |-> 0, heartbeat |-> 0],
   server |-> [channel_max |-> 0, frame_max |-> 0, heartbeat |-> 0],
   err |-> [kind |-> "none", state |-> "-"], status |-> "-"]

\* IoLoop::ensure_setup has work to do: the loop is not set up and the
\* connection is connected
needs_setup == status # "Setup" /\ conn_state = "Connected"

\* IoLoop::ensure_setup, at the start of do_run: the buffers grow to
\* FRAMES_STORAGE * max(frame_size, frame_max), the heartbeat thread is
\* started when the heartbeat is not 0 and the loop is set up
ensure_setup ==
  /\ io_running
  /\ needs_setup
  /\ frame_size' = Max(frame_size, frame_max)
  /\ hb_handle' = (heartbeat # 0)
  /\ status' = "Setup"
  /\ UNCHANGED <<frame_max, conn_state, channel_max, heartbeat, connect_wait,
                 blocked, chan_state, confirm, delivery_tag, pending,
                 confirmed, queues, returned_messages, frames,
                 expected_replies, send_buffer, can_write, has_data,
                 send_heartbeat, continue_ready, io_thread, hb_joined,
                 last_take, can_read, receive_buffer, receive_data, net,
                 arrived, readable_event, sent_in, dispatched, data_ready,
                 pc, cur, wire, requeued, enqueued, replied, unresolved,
                 failed, publishes, tag_log, confirm_waits, io_err, handler,
                 last_in, last_conn, content, chan_errors, completed,
                 inbound, sends, beats>>

\* the heartbeat thread of start_heartbeat: while the connection is
\* connected it sleeps for the interval and raises the flag
heartbeat_thread ==
  /\ hb_handle
  /\ conn_state = "Connected"
  /\ beats < MaxBeats
  /\ send_heartbeat' = TRUE
  /\ beats' = beats + 1
  /\ UNCHANGED <<frame_max, conn_state, channel_max, heartbeat, connect_wait,
                 blocked, chan_state, confirm, delivery_tag, pending,
                 confirmed, queues, returned_messages, frames,
                 expected_replies, status, frame_size, send_buffer,
                 can_write, has_data, hb_handle, continue_ready, io_thread,
                 hb_joined, last_take, can_read, receive_buffer,
                 receive_data, net, arrived, readable_event, sent_in,
                 dispatched, data_ready, pc, cur, wire, requeued, enqueued,
                 replied, unresolved, failed, publishes, tag_log,
                 confirm_waits, io_err, handler, last_in, last_conn, content,
                 chan_errors, completed, inbound, sends>>

\* the frame Connection::send_heartbeat enqueues
HeartbeatFrame ==
  [MethodFrame(0, "-", 0, NoArg, NoReply) EXCEPT !.type = "Heartbeat"]

\* the socket is writable from the start: its edge-triggered event is there
\* until the loop has seen it, and again after a write that would block
writable_event == ~can_write

\* the poll of do_run returns: the DATA token, the CONTINUE token or a
\* readiness event of the socket is there
poll_ready(writable) == data_ready \/ continue_ready \/ writable

\* IoLoop::wants_to_write, with the events the poll delivered
wants_to_write(writable) == (can_write \/ writable) /\ (has_data \/ data_ready)

\* the write branch taken whether the connection is blocked or not
may_write_blocked(writable) == wants_to_write(writable)

\* the write branch of do_run is taken: wants_to_write and not blocked
may_write(writable) == wants_to_write(writable) /\ ~blocked

\* the inner loop of do_run goes round again after the pass that parsed a
\* connection.close: wants_to_read and wants_to_write, the loop not stopped
\* and the connection not in Error
inner_loop ==
  /\ conn_state = "Closed"
  /\ status = "Setup"
  /\ can_write /\ has_data
  /\ io_err = NoErr /\ handler = NoHandler

\* the I/O thread has left the loop of IoLoop::run
loop_exited == ~should_continue /\ ~inner_loop

\* IoLoop::do_run, the poll and the write branch of one pass of its loop.
\* The poll delivers the DATA event when a frame was enqueued and the socket's
\* writable event when there is one; a raised heartbeat flag enqueues a
\* heartbeat frame; then, when wants_to_write and the connection is not
\* blocked, comes write_to_stream (serialize, then socket.write): WouldBlock
\* clears can_write and any other error is fatal, failing the connect Wait
\* when the state is still SentProtocolHeader; a closed connection stops the
\* loop; the CONTINUE token is raised when data is left
do_run_gen(writable, socket, gen) ==
  /\ io_thread = "running"
  /\ io_running \/ inner_loop
  /\ ~needs_setup
  /\ send_heartbeat' = FALSE
  /\ data_ready' = send_heartbeat
  /\ LET queued == IF send_heartbeat THEN FramesPush(frames, HeartbeatFrame)
                   ELSE frames
     IN IF may_write(writable) /\ ~FramesEmpty(queued) /\ gen = "GenError"
        THEN /\ frames' = FramesPop(queued)
             /\ last_take' = Take(FramesNext(queued), "error")
             /\ connection_set_error
             /\ io_thread' = "Err"
             /\ can_write' = (can_write \/ writable)
             /\ has_data' = TRUE
             /\ continue_ready' = FALSE
             /\ last_conn' = [NoEvent EXCEPT
                  !.method = "serialize", !.before = conn_state,
                  !.after = "Error", !.wait = connect_wait,
                  !.queue = frames'.HIGH,
                  !.err = [kind |-> "SerialisationError", state |-> "-"]]
             /\ UNCHANGED <<expected_replies, wire, requeued, send_buffer,
                            connect_wait, status>>
        ELSE IF may_write(writable)
        THEN LET sr == serialize(queued, send_buffer, expected_replies, TRUE)
             IN \E r \in {w \in WriteResults(available_data(sr.buf)) : w.kind \in socket} :
                /\ frames' = sr.frames
                /\ last_take' = IF sr.take = "none" THEN last_take
                                ELSE Take(FramesNext(queued), sr.take)
                /\ expected_replies' = sr.reg
                /\ has_data' = sr.has_data
                /\ wire' = wire \o sr.sent
                /\ requeued' = requeued \cup sr.requeued
                /\ IF r.kind = "Error"
                   THEN /\ connection_set_error
                        /\ send_buffer' = sr.buf
                        /\ can_write' = TRUE
                        /\ continue_ready' = FALSE
                        /\ io_thread' = "Err"
                        /\ IF conn_state = "SentProtocolHeader"
                           THEN /\ connect_wait' = Append(connect_wait, "ConnectionRefused")
                                /\ status' = "Stop"
                           ELSE UNCHANGED <<connect_wait, status>>
                        /\ last_conn' = [NoEvent EXCEPT
                             !.method = "write error", !.before = conn_state,
                             !.after = "Error", !.wait = connect_wait',
                             !.queue = sr.frames.HIGH]
                   ELSE /\ send_buffer' = shift_unless_available(
                               consume(sr.buf, r.n), frame_size)
                        /\ can_write' = (r.kind # "WouldBlock")
                        /\ status' = IF conn_state = "Closed" THEN "Stop" ELSE status
                        /\ continue_ready' = (sr.has_data /\ conn_state # "Closed")
                        /\ UNCHANGED <<conn_state, chan_state, connect_wait, last_conn,
                                       io_thread>>
        ELSE /\ frames' = queued
             /\ can_write' = (can_write \/ writable)
             /\ has_data' = (has_data \/ data_ready)
             /\ status' = IF conn_state = "Closed" THEN "Stop" ELSE status
             /\ continue_ready' = ((has_data \/ data_ready) /\ conn_state # "Closed")
             /\ UNCHANGED <<expected_replies, wire, requeued, send_buffer,
                            conn_state, chan_state, connect_wait, last_conn,
                            io_thread, last_take>>
  /\ UNCHANGED <<frame_max, channel_max, heartbeat, blocked, confirm,
                 delivery_tag, pending, confirmed, queues, returned_messages,
                 frame_size, hb_handle, hb_joined, can_read, receive_buffer,
                 receive_data, net, arrived, readable_event, sent_in,
                 dispatched, pc, cur, enqueued, replied, unresolved, failed,
                 publishes, tag_log, confirm_waits, io_err, handler, last_in,
                 content, chan_errors, completed, inbound, sends, beats>>

\* IoLoop::do_run with a gen_frame that reports a size or BufferTooSmall
do_run(writable, socket) == do_run_gen(writable, socket, "Ok")

\* ------------------------------------------------------- the inbound stream
\* the bytes of the k-th frame the server sends: a frame of FrameOverhead
\* bytes, each byte knowing its frame and its place in it
FrameBytes(k, kind) ==
  [n \in 1..FrameOverhead |-> [frame |-> k, kind |-> kind, n |-> n]]

\* the server sends a frame
server_sends(kind) ==
  /\ sent_in < MaxStream
  /\ io_thread = "running"
  /\ net' = net \o FrameBytes(sent_in + 1, kind)
  /\ sent_in' = sent_in + 1
  /\ UNCHANGED <<frame_max, conn_state, channel_max, heartbeat, connect_wait,
                 blocked, chan_state, confirm, delivery_tag, pending,
                 confirmed, queues, returned_messages, frames,
                 expected_replies, status, frame_size, send_buffer,
                 can_write, has_data, send_heartbeat, hb_handle,
                 continue_ready, io_thread, hb_joined, last_take, can_read,
                 receive_buffer, receive_data, arrived, readable_event,
                 dispatched, data_ready, pc, cur, wire, requeued, enqueued,
                 replied, unresolved, failed, publishes, tag_log,
                 confirm_waits, io_err, handler, last_in, last_conn, content,
                 chan_errors, completed, inbound, sends, beats>>

\* n more bytes reach the socket: the poller gets its readable event
socket_readable(n) ==
  /\ n \in 1..(Len(net) - arrived)
  /\ arrived' = arrived + n
  /\ readable_event' = TRUE
  /\ UNCHANGED <<frame_max, conn_state, channel_max, heartbeat, connect_wait,
                 blocked, chan_state, confirm, delivery_tag, pending,
                 confirmed, queues, returned_messages, frames,
                 expected_replies, status, frame_size, send_buffer,
                 can_write, has_data, send_heartbeat, hb_handle,
                 continue_ready, io_thread, hb_joined, last_take, can_read,
                 receive_buffer, receive_data, net, sent_in, dispatched,
                 data_ready, pc, cur, wire, requeued, enqueued, replied,
                 unresolved, failed, publishes, tag_log, confirm_waits,
                 io_err, handler, last_in, last_conn, content, chan_errors,
                 completed, inbound, sends, beats>>

\* what socket.read can return: bytes when some have arrived, WouldBlock when
\* none has, or an error
ReadResults == IF arrived = 0 THEN {"WouldBlock", "Error"} ELSE {"Ok", "Error"}

\* a socket that does not fail
Steady == {"Ok", "WouldBlock"}

\* IoLoop::parse dropping the bytes of an incomplete frame
parse_drops_incomplete(data) ==
  IF data = <<>>
  THEN [kind |-> "None", rest |-> data, frame |-> [frame |-> 0, kind |-> "-"]]
  ELSE IF data[1].kind = "garbage" \/ data[1].n # 1
  THEN [kind |-> "Error", rest |-> data, frame |-> [frame |-> 0, kind |-> "-"]]
  ELSE IF Len(data) >= FrameOverhead
  THEN [kind |-> "Ok", rest |-> SubSeq(data, FrameOverhead + 1, Len(data)),
        frame |-> [frame |-> data[1].frame, kind |-> data[1].kind]]
  ELSE [kind |-> "Incomplete", rest |-> <<>>, frame |-> [frame |-> 0, kind |-> "-"]]

\* IoLoop::parse on the data of the receive buffer: parse_frame finds a whole
\* frame, which is consumed and goes to handle_frame; or an incomplete one,
\* which stays; or bytes that are no frame
parse(data) ==
  IF data = <<>>
  THEN [kind |-> "None", rest |-> data, frame |-> [frame |-> 0, kind |-> "-"]]
  ELSE IF data[1].kind = "garbage" \/ data[1].n # 1
  THEN [kind |-> "Error", rest |-> data, frame |-> [frame |-> 0, kind |-> "-"]]
  ELSE IF Len(data) >= FrameOverhead
  THEN [kind |-> "Ok", rest |-> SubSeq(data, FrameOverhead + 1, Len(data)),
        frame |-> [frame |-> data[1].frame, kind |-> data[1].kind]]
  ELSE [kind |-> "Incomplete", rest |-> data, frame |-> [frame |-> 0, kind |-> "-"]]


\* IoLoop::do_run in a pass that has nothing to write (no heartbeat due and
\* the write branch not taken): the poll, then a closed connection stops the
\* loop; when should_continue and wants_to_read, read_from_stream reads into
\* the space of the receive buffer (WouldBlock clears can_read, another error
\* is fatal); when the buffer holds data, parse handles one frame; the
\* CONTINUE token is raised when the loop is not stopped and wants_to_read,
\* can_parse or has_data
do_run_read(socket) ==
  /\ io_thread = "running"
  /\ io_running
  /\ ~needs_setup
  /\ ~send_heartbeat /\ ~may_write(writable_event)
  /\ readable_event \/ poll_ready(writable_event)
  /\ readable_event' = FALSE
  /\ data_ready' = FALSE
  /\ has_data' = (has_data \/ data_ready)
  /\ can_write' = (can_write \/ writable_event)
  /\ LET st == IF conn_state = "Closed" THEN "Stop" ELSE status
         reads == continues(st, conn_state) /\ (can_read \/ readable_event)
     IN /\ status' = st
        /\ \E r \in (IF reads THEN ReadResults \cap socket ELSE {"None"}) :
             LET n == IF r = "Ok" THEN Min(arrived, available_space(receive_buffer))
                      ELSE 0
                 data == receive_data \o SubSeq(net, 1, n)
                 buf == IF r = "Ok"
                        THEN shift_unless_available(fill(receive_buffer, n), frame_size)
                        ELSE receive_buffer
                 cr == (can_read \/ readable_event) /\ r # "WouldBlock"
                 p == parse(data)
             IN /\ net' = SubSeq(net, n + 1, Len(net))
                /\ arrived' = arrived - n
                /\ can_read' = cr
                /\ IF r = "Error"
                   THEN /\ connection_set_error
                        /\ io_thread' = "Err"
                        /\ receive_data' = data
                        /\ receive_buffer' = buf
                        /\ continue_ready' = FALSE
                        /\ UNCHANGED dispatched
                   ELSE /\ receive_data' = p.rest
                        /\ receive_buffer' =
                             CASE p.kind = "Ok" -> consume(buf, FrameOverhead)
                               [] p.kind = "Incomplete" -> shift(buf)
                               [] OTHER -> buf
                        /\ dispatched' = IF p.kind = "Ok" THEN Append(dispatched, p.frame)
                                         ELSE dispatched
                        /\ IF p.kind = "Error" \/ (p.kind = "Ok" /\ p.frame.kind = "unexpected")
                           THEN /\ connection_set_error
                                /\ io_thread' = "Err"
                                /\ continue_ready' = FALSE
                           ELSE /\ conn_state' = IF p.kind = "Ok" /\ p.frame.kind = "connection.close-ok"
                                                 THEN "Closed" ELSE conn_state
                                /\ continue_ready' =
                                     (st # "Stop" /\ (cr \/ p.rest # <<>> \/ has_data'))
                                /\ UNCHANGED <<chan_state, io_thread>>
  /\ UNCHANGED <<frame_max, channel_max, heartbeat, connect_wait, blocked,
                 confirm, delivery_tag, pending, confirmed, queues,
                 returned_messages, frames, expected_replies, frame_size,
                 send_buffer, send_heartbeat, hb_handle, hb_joined,
                 last_take, sent_in, pc, cur, wire, requeued, enqueued,
                 replied, unresolved, failed, publishes, tag_log,
                 confirm_waits, io_err, handler, last_in, last_conn, content,
                 chan_errors, completed, inbound, sends, beats>>

\* IoLoop::parse, after handle_frame returned an error: the connection is
\* set to Error and the error ends the loop
parse_error ==
  /\ should_continue
  /\ io_err # NoErr
  /\ handler = NoHandler
  /\ connection_set_error
  /\ io_err' = NoErr
  /\ io_thread' = "Err"
  /\ UNCHANGED <<frame_max, channel_max, heartbeat, connect_wait, blocked,
                 confirm, delivery_tag, pending, confirmed, queues,
                 returned_messages, frames, expected_replies, status,
                 frame_size, send_buffer, can_write, has_data,
                 send_heartbeat, hb_handle, continue_ready, hb_joined,
                 last_take, can_read, receive_buffer, receive_data, net,
                 arrived, readable_event, sent_in, dispatched, data_ready,
                 pc, cur, wire, requeued, enqueued, replied, unresolved,
                 failed, publishes, tag_log, confirm_waits, handler, last_in,
                 last_conn, content, chan_errors, completed, inbound, sends,
                 beats>>

\* IoLoop::run, after its loop: should_continue() is false, the handle of the
\* heartbeat thread is taken, the thread unparked and joined, Ok(()) returned
run_exit ==
  /\ io_thread = "running"
  /\ loop_exited
  /\ io_err = NoErr /\ handler = NoHandler
  /\ hb_handle' = FALSE
  /\ hb_joined' = hb_handle
  /\ io_thread' = "Ok"
  /\ UNCHANGED <<frame_max, conn_state, channel_max, heartbeat, connect_wait,
                 blocked, chan_state, confirm, delivery_tag, pending,
                 confirmed, queues, returned_messages, frames,
                 expected_replies, status, frame_size, send_buffer,
                 can_write, has_data, send_heartbeat, continue_ready,
                 last_take, can_read, receive_buffer, receive_data, net,
                 arrived, readable_event, sent_in, dispatched, data_ready,
                 pc, cur, wire, requeued, enqueued, replied, unresolved,
                 failed, publishes, tag_log, confirm_waits, io_err, handler,
                 last_in, last_conn, content, chan_errors, completed,
                 inbound, sends, beats>>

\* a frame can be dispatched to the channel: the loop runs and the channel
\* is still registered with the connection
can_receive(ch) ==
  /\ io_running
  /\ inbound < MaxInbound
  /\ chan_state[ch].s \notin {"Closed", "Error"}

\* the expectation each reply method answers
RepliedKind(m) ==
  CASE m = "confirm.select-ok" -> "AwaitingConfirmSelectOk"
    [] m = "queue.declare-ok" -> "AwaitingQueueDeclareOk"
    [] m = "channel.close-ok" -> "AwaitingChannelCloseOk"

\* ChannelStatus::set_confirm
set_confirm(ch) == [confirm EXCEPT ![ch] = TRUE]

\* on_confirm_select_ok_received: the channel enters confirm mode
on_confirm_select_ok_received(ch) ==
  /\ can_receive(ch)
  /\ confirm' = set_confirm(ch)
  /\ UNCHANGED <<frame_max, conn_state, channel_max, heartbeat, connect_wait,
                 blocked, chan_state, delivery_tag, pending, confirmed,
                 queues, returned_messages, frames, expected_replies, status,
                 frame_size, send_buffer, can_write, has_data,
                 send_heartbeat, hb_handle, continue_ready, io_thread,
                 hb_joined, last_take, can_read, receive_buffer,
                 receive_data, net, arrived, readable_event, sent_in,
                 dispatched, data_ready, pc, cur, wire, requeued, enqueued,
                 replied, unresolved, failed, publishes, tag_log,
                 confirm_waits, io_err, handler, last_in, last_conn, content,
                 chan_errors, completed, inbound, sends, beats>>

\* a reply method received: the oldest expectation of the channel is taken;
\* when it is the one the method answers its handler runs, otherwise the
\* channel is set to Error and UnexpectedReply is returned
receive_reply(ch, m) ==
  /\ can_receive(ch)
  /\ inbound' = inbound + 1
  /\ expected_replies' = [expected_replies EXCEPT ![ch] =
                             IF @ = <<>> THEN @ ELSE Tail(@)]
  /\ IF expected_replies[ch] # <<>>
        /\ Head(expected_replies[ch]).kind = RepliedKind(m)
     THEN /\ replied' = [replied EXCEPT ![ch] =
                            Append(@, Head(expected_replies[ch]).id)]
          /\ confirm' = IF m = "confirm.select-ok" THEN set_confirm(ch) ELSE confirm
          /\ chan_state' = IF m = "channel.close-ok"
                           THEN [chan_state EXCEPT ![ch] = Closed] ELSE chan_state
          /\ UNCHANGED <<io_err, chan_errors>>
     ELSE /\ chan_state' = [chan_state EXCEPT ![ch] = Error]
          /\ io_err' = "UnexpectedReply"
          /\ chan_errors' = Append(chan_errors, [channel |-> ch,
                                                 error |-> "UnexpectedReply"])
          /\ UNCHANGED <<replied, confirm>>
  /\ UNCHANGED <<frame_max, conn_state, channel_max, heartbeat, connect_wait,
                 blocked, delivery_tag, pending, confirmed, queues,
                 returned_messages, frames, status, frame_size, send_buffer,
                 can_write, has_data, send_heartbeat, hb_handle,
                 continue_ready, io_thread, hb_joined, last_take, can_read,
                 receive_buffer, receive_data, net, arrived, readable_event,
                 sent_in, dispatched, data_ready, pc, cur, wire, requeued,
                 enqueued, unresolved, failed, publishes, tag_log,
                 confirm_waits, handler, last_in, last_conn, content,
                 completed, sends, beats>>

\* Connection::remove_channel: the channel leaves the connection with the
\* expectations of its registry; each is failed with an error made from what
\* remove_channel is given, the channel id
remove_channel(ch, cause) ==
  [i \in 1..Len(expected_replies[ch]) |->
     [channel |-> ch, id |-> expected_replies[ch][i].id,
      error |-> [kind |-> "PreconditionFailed", code |-> 0, class_id |-> 0,
                 method_id |-> 0],
      cause |-> cause]]

\* on_basic_get_empty_received: the oldest expectation of the channel is
\* taken; an AwaitingBasicGetOk is finished with None, anything else is
\* dropped, the channel is set to Error and removed from the connection
\* (Channel::set_error) and UnexpectedReply is returned
on_basic_get_empty_received(ch) ==
  /\ can_receive(ch)
  /\ inbound' = inbound + 1
  /\ IF expected_replies[ch] # <<>>
        /\ Head(expected_replies[ch]).kind = "AwaitingBasicGetOk"
     THEN /\ replied' = [replied EXCEPT ![ch] =
                            Append(@, Head(expected_replies[ch]).id)]
          /\ expected_replies' = [expected_replies EXCEPT ![ch] = Tail(@)]
          /\ UNCHANGED <<chan_state, io_err, chan_errors, unresolved, failed>>
     ELSE /\ chan_state' = [chan_state EXCEPT ![ch] = Error]
          /\ expected_replies' = [expected_replies EXCEPT ![ch] = <<>>]
          /\ failed' = IF expected_replies[ch] = <<>> THEN failed
                       ELSE failed \o Tail(remove_channel(ch, "basic.get-empty"))
          /\ io_err' = "UnexpectedReply"
          /\ chan_errors' = Append(chan_errors, [channel |-> ch,
                                                 error |-> "UnexpectedReply"])
          /\ unresolved' = IF expected_replies[ch] = <<>> THEN unresolved
                           ELSE Append(unresolved,
                                       [channel |-> ch,
                                        id |-> Head(expected_replies[ch]).id])
          /\ UNCHANGED replied
  /\ UNCHANGED <<frame_max, conn_state, channel_max, heartbeat, connect_wait,
                 blocked, confirm, delivery_tag, pending, confirmed, queues,
                 returned_messages, frames, status, frame_size, send_buffer,
                 can_write, has_data, send_heartbeat, hb_handle,
                 continue_ready, io_thread, hb_joined, last_take, can_read,
                 receive_buffer, receive_data, net, arrived, readable_event,
                 sent_in, dispatched, data_ready, pc, cur, wire, requeued,
                 enqueued, publishes, tag_log, confirm_waits, handler,
                 last_in, last_conn, content, completed, sends, beats>>

\* on_channel_close_received: the close is logged and channel.close-ok is
\* sent; on_channel_close_ok_sent sets the channel Closed and removes it
on_channel_close_received(ch, method) ==
  /\ can_receive(ch)
  /\ inbound' = inbound + 1
  /\ send_frame(MethodFrame(ch, "channel.close-ok", 0, NoArg, NoReply))
  /\ chan_state' = [chan_state EXCEPT ![ch] = Closed]
  /\ failed' = failed \o remove_channel(ch, method)
  /\ expected_replies' = [expected_replies EXCEPT ![ch] = <<>>]
  /\ UNCHANGED <<frame_max, conn_state, channel_max, heartbeat, connect_wait,
                 blocked, confirm, delivery_tag, pending, confirmed, queues,
                 returned_messages, status, frame_size, send_buffer,
                 can_write, has_data, send_heartbeat, hb_handle,
                 continue_ready, io_thread, hb_joined, last_take, can_read,
                 receive_buffer, receive_data, net, arrived, readable_event,
                 sent_in, dispatched, pc, cur, wire, requeued, replied,
                 unresolved, publishes, tag_log, confirm_waits, io_err,
                 handler, last_in, last_conn, content, chan_errors,
                 completed, sends, beats>>

\* ------------------------------------------------------- Acknowledgements
\* the tags taken out of the pending set, their Waits resolved as success or
\* as failure
resolve(pend, conf, tags, success) ==
  [ok |-> TRUE, pending |-> pend \ tags,
   confirmed |-> conf \cup {[tag |-> t, success |-> success] : t \in tags}]

\* the outcome of matching a tag that is not pending
unknown_tag(pend, conf) == [ok |-> FALSE, pending |-> pend, confirmed |-> conf]

ack(pend, conf, tag) ==
  IF tag \in pend THEN resolve(pend, conf, {tag}, TRUE) ELSE unknown_tag(pend, conf)

ack_all_before(pend, conf, tag) ==
  resolve(pend, conf, {t \in pend : t <= tag}, TRUE)

ack_all_pending(pend, conf) == resolve(pend, conf, pend, TRUE)

nack(pend, conf, tag) ==
  IF tag \in pend THEN resolve(pend, conf, {tag}, FALSE) ELSE unknown_tag(pend, conf)

nack_all_before(pend, conf, tag) ==
  resolve(pend, conf, {t \in pend : t <= tag}, FALSE)

nack_all_pending(pend, conf) == resolve(pend, conf, pend, FALSE)

\* get_last_pending: the newest tag that is pending, 0 when there is none
get_last_pending(pend) ==
  IF pend = {} THEN 0 ELSE CHOOSE t \in pend : \A u \in pend : u <= t

\* ----------------------------------------------------- channel close, sent
\* ChannelStatus::set_closing
set_closing(ch) == [chan_state EXCEPT ![ch] = Closing]

\* do_channel_close on a connected channel: the channel.close method frame,
\* HIGH, expecting channel.close-ok; then on_channel_close_sent
do_channel_close(ch, arg) ==
  /\ send_frame(MethodFrame(ch, "channel.close", 0, arg,
                            Reply("AwaitingChannelCloseOk", enqueued + 1)))
  /\ chan_state' = set_closing(ch)

\* the reply codes callers close a channel with
ReplyCodes == {200}

\* Channel::close by a caller: do_channel_close(code, text, 0, 0), refused
\* when the channel is not connected
close(t, ch, code) ==
  /\ pc[t] = "idle"
  /\ sends < MaxSends
  /\ is_connected(chan_state[ch])
  /\ do_channel_close(ch, [code |-> code, class_id |-> 0, method_id |-> 0])
  /\ sends' = sends + 1
  /\ UNCHANGED <<frame_max, conn_state, channel_max, heartbeat, connect_wait,
                 blocked, confirm, delivery_tag, pending, confirmed, queues,
                 returned_messages, expected_replies, status, frame_size,
                 send_buffer, can_write, has_data, send_heartbeat, hb_handle,
                 continue_ready, io_thread, hb_joined, last_take, can_read,
                 receive_buffer, receive_data, net, arrived, readable_event,
                 sent_in, dispatched, pc, cur, wire, requeued, replied,
                 unresolved, failed, publishes, tag_log, confirm_waits,
                 io_err, handler, last_in, last_conn, content, chan_errors,
                 completed, inbound, beats>>

\* ------------------------------------------------- inbound frames: history
NoFrame ==
  [channel |-> 0, method |-> "-", tag |-> 0, multiple |-> FALSE, size |-> 0,
   before |-> Connected, after |-> Connected, confirm |-> FALSE,
   pending_before |-> {}, pending_after |-> {}, matched |-> TRUE,
   close |-> NoArg, err |-> NoErr, done |-> FALSE]

\* the record of a frame of channel ch as its handler starts
Received(ch, m, tag, multiple, size) ==
  [NoFrame EXCEPT !.channel = ch, !.method = m, !.tag = tag,
                  !.multiple = multiple, !.size = size,
                  !.before = chan_state[ch], !.after = chan_state[ch],
                  !.confirm = confirm[ch],
                  !.pending_before = pending[ch], !.pending_after = pending[ch]]

\* a method received on a channel that is not connected is refused with
\* InvalidChannelState
receive_refused(ch, m, tag, multiple) ==
  /\ io_err' = "InvalidChannelState"
  /\ chan_errors' = Append(chan_errors, [channel |-> ch,
                                         error |-> "InvalidChannelState"])
  /\ last_in' = [Received(ch, m, tag, multiple, 0) EXCEPT
                   !.err = "InvalidChannelState"]

\* the end of on_basic_ack_received / on_basic_nack_received: the pending set
\* is what the match left; a failed match goes on to acknowledgement_error
acknowledged(ch, m, method_id, tag, multiple, r) ==
  /\ pending' = [pending EXCEPT ![ch] = r.pending]
  /\ confirmed' = [confirmed EXCEPT ![ch] = r.confirmed]
  /\ handler' = IF r.ok THEN NoHandler
                ELSE [at |-> "acknowledgement_error", channel |-> ch,
                      method_id |-> method_id]
  /\ last_in' = [Received(ch, m, tag, multiple, 0) EXCEPT
                   !.pending_after = r.pending, !.matched = r.ok]

\* on_basic_ack_received with tag 0 not told apart from the other tags
on_basic_ack_received_no_zero(ch, tag, multiple) ==
  /\ can_receive(ch)
  /\ inbound' = inbound + 1
  /\ IF ~is_connected(chan_state[ch])
     THEN /\ receive_refused(ch, "basic.ack", tag, multiple)
          /\ UNCHANGED <<pending, confirmed, handler>>
     ELSE /\ acknowledged(ch, "basic.ack", BasicAckMethodId, tag, multiple,
               IF confirm[ch]
               THEN IF multiple
                    THEN ack_all_before(pending[ch], confirmed[ch], tag)
                    ELSE ack(pending[ch], confirmed[ch], tag)
               ELSE resolve(pending[ch], confirmed[ch], {}, TRUE))
          /\ UNCHANGED <<io_err, chan_errors>>
  /\ UNCHANGED <<frame_max, conn_state, channel_max, heartbeat, connect_wait,
                 blocked, chan_state, confirm, delivery_tag, queues,
                 returned_messages, frames, expected_replies, status,
                 frame_size, send_buffer, can_write, has_data,
                 send_heartbeat, hb_handle, continue_ready, io_thread,
                 hb_joined, last_take, can_read, receive_buffer,
                 receive_data, net, arrived, readable_event, sent_in,
                 dispatched, data_ready, pc, cur, wire, requeued, enqueued,
                 replied, unresolved, failed, publishes, tag_log,
                 confirm_waits, last_conn, content, completed, sends, beats>>

\* on_basic_ack_received: in confirm mode, multiple with a tag acks all
\* pending tags up to it, multiple with tag 0 acks all pending tags, and a
\* single ack acks its tag
on_basic_ack_received(ch, tag, multiple) ==
  /\ can_receive(ch)
  /\ inbound' = inbound + 1
  /\ IF ~is_connected(chan_state[ch])
     THEN /\ receive_refused(ch, "basic.ack", tag, multiple)
          /\ UNCHANGED <<pending, confirmed, handler>>
     ELSE /\ acknowledged(ch, "basic.ack", BasicAckMethodId, tag, multiple,
               IF confirm[ch]
               THEN IF multiple
                    THEN IF tag > 0
                         THEN ack_all_before(pending[ch], confirmed[ch], tag)
                         ELSE ack_all_pending(pending[ch], confirmed[ch])
                    ELSE ack(pending[ch], confirmed[ch], tag)
               ELSE resolve(pending[ch], confirmed[ch], {}, TRUE))
          /\ UNCHANGED <<io_err, chan_errors>>
  /\ UNCHANGED <<frame_max, conn_state, channel_max, heartbeat, connect_wait,
                 blocked, chan_state, confirm, delivery_tag, queues,
                 returned_messages, frames, expected_replies, status,
                 frame_size, send_buffer, can_write, has_data,
                 send_heartbeat, hb_handle, continue_ready, io_thread,
                 hb_joined, last_take, can_read, receive_buffer,
                 receive_data, net, arrived, readable_event, sent_in,
                 dispatched, data_ready, pc, cur, wire, requeued, enqueued,
                 replied, unresolved, failed, publishes, tag_log,
                 confirm_waits, last_conn, content, completed, sends, beats>>

\* on_basic_nack_received: as on_basic_ack_received, the tags marked failed
on_basic_nack_received(ch, tag, multiple) ==
  /\ can_receive(ch)
  /\ inbound' = inbound + 1
  /\ IF ~is_connected(chan_state[ch])
     THEN /\ receive_refused(ch, "basic.nack", tag, multiple)
          /\ UNCHANGED <<pending, confirmed, handler>>
     ELSE /\ acknowledged(ch, "basic.nack", BasicNackMethodId, tag, multiple,
               IF confirm[ch]
               THEN IF multiple
                    THEN IF tag > 0
                         THEN nack_all_before(pending[ch], confirmed[ch], tag)
                         ELSE nack_all_pending(pending[ch], confirmed[ch])
                    ELSE nack(pending[ch], confirmed[ch], tag)
               ELSE resolve(pending[ch], confirmed[ch], {}, TRUE))
          /\ UNCHANGED <<io_err, chan_errors>>
  /\ UNCHANGED <<frame_max, conn_state, channel_max, heartbeat, connect_wait,
                 blocked, chan_state, confirm, delivery_tag, queues,
                 returned_messages, frames, expected_replies, status,
                 frame_size, send_buffer, can_write, has_data,
                 send_heartbeat, hb_handle, continue_ready, io_thread,
                 hb_joined, last_take, can_read, receive_buffer,
                 receive_data, net, arrived, readable_event, sent_in,
                 dispatched, data_ready, pc, cur, wire, requeued, enqueued,
                 replied, unresolved, failed, publishes, tag_log,
                 confirm_waits, last_conn, content, completed, sends, beats>>

\* acknowledgement_error: do_channel_close(406, "precondition failed",
\* class_id, method_id).as_error()? and then Err(error): when the close is
\* refused its error is the one returned, and no channel.close is sent
acknowledgement_error ==
  /\ should_continue
  /\ handler.at = "acknowledgement_error"
  /\ LET ch == handler.channel
         arg == [code |-> PRECONDITIONFAILED, class_id |-> BasicClassId,
                 method_id |-> handler.method_id]
         err == IF is_connected(chan_state[ch]) THEN "PreconditionFailed"
                ELSE "InvalidChannelState"
     IN /\ IF is_connected(chan_state[ch])
           THEN /\ do_channel_close(ch, arg)
                /\ last_in' = [last_in EXCEPT !.close = arg, !.after = Closing,
                                              !.err = err]
           ELSE /\ last_in' = [last_in EXCEPT !.after = chan_state[ch],
                                              !.err = err]
                /\ UNCHANGED <<frames, data_ready, enqueued, chan_state>>
        /\ io_err' = err
        /\ chan_errors' = Append(chan_errors, [channel |-> ch, error |-> err])
  /\ handler' = NoHandler
  /\ UNCHANGED <<frame_max, conn_state, channel_max, heartbeat, connect_wait,
                 blocked, confirm, delivery_tag, pending, confirmed, queues,
                 returned_messages, expected_replies, status, frame_size,
                 send_buffer, can_write, has_data, send_heartbeat, hb_handle,
                 continue_ready, io_thread, hb_joined, last_take, can_read,
                 receive_buffer, receive_data, net, arrived, readable_event,
                 sent_in, dispatched, pc, cur, wire, requeued, replied,
                 unresolved, failed, publishes, tag_log, confirm_waits,
                 last_conn, content, completed, inbound, sends, beats>>

\* -------------------------------------------------------- wait_for_confirms
\* the Wait of a tag is resolved once the tag was acked or nacked
resolved(ch, tag) == \E r \in confirmed[ch] : r.tag = tag

\* wait_for_confirms: with a last pending tag, the Wait of that tag, mapped to
\* drain the returned messages once it resolves; without one, a Wait finished
\* on the spot with Vec::default()
wait_for_confirms(t, ch) ==
  /\ pc[t] = "idle"
  /\ Len(confirm_waits) < MaxWaits
  /\ confirm_waits' = Append(confirm_waits,
       [channel |-> ch, tag |-> get_last_pending(pending[ch]),
        at_call |-> pending[ch],
        returns_at_call |-> returned_messages[ch].messages,
        returns_after |-> returned_messages[ch].messages,
        finished |-> get_last_pending(pending[ch]) = 0, value |-> <<>>])
  /\ UNCHANGED <<frame_max, conn_state, channel_max, heartbeat, connect_wait,
                 blocked, chan_state, confirm, delivery_tag, pending,
                 confirmed, queues, returned_messages, frames,
                 expected_replies, status, frame_size, send_buffer,
                 can_write, has_data, send_heartbeat, hb_handle,
                 continue_ready, io_thread, hb_joined, last_take, can_read,
                 receive_buffer, receive_data, net, arrived, readable_event,
                 sent_in, dispatched, data_ready, pc, cur, wire, requeued,
                 enqueued, replied, unresolved, failed, publishes, tag_log,
                 io_err, handler, last_in, last_conn, content, chan_errors,
                 completed, inbound, sends, beats>>

\* the Confirmation of wait_for_confirms polled after its tag was confirmed:
\* the map runs and the value is returned_messages.drain()
confirmation_map(i) ==
  /\ i \in 1..Len(confirm_waits)
  /\ ~confirm_waits[i].finished
  /\ resolved(confirm_waits[i].channel, confirm_waits[i].tag)
  /\ LET ch == confirm_waits[i].channel
     IN /\ confirm_waits' = [confirm_waits EXCEPT
              ![i].finished = TRUE,
              ![i].value = returned_messages[ch].messages]
        /\ returned_messages' = [returned_messages EXCEPT ![ch].messages = <<>>]
  /\ UNCHANGED <<frame_max, conn_state, channel_max, heartbeat, connect_wait,
                 blocked, chan_state, confirm, delivery_tag, pending,
                 confirmed, queues, frames, expected_replies, status,
                 frame_size, send_buffer, can_write, has_data,
                 send_heartbeat, hb_handle, continue_ready, io_thread,
                 hb_joined, last_take, can_read, receive_buffer,
                 receive_data, net, arrived, readable_event, sent_in,
                 dispatched, data_ready, pc, cur, wire, requeued, enqueued,
                 replied, unresolved, failed, publishes, tag_log, io_err,
                 handler, last_in, last_conn, content, chan_errors,
                 completed, inbound, sends, beats>>

\* --------------------------------------------------------- content receive
HeaderSizes == 0..MaxBodySize

BodySizes == 1..MaxBodySize

\* ReturnedMessages::start_new_delivery
start_new_delivery(rm) == [rm EXCEPT !.current = <<[size |-> 0, got |-> 0]>>]

\* ReturnedMessages::set_delivery_properties
set_delivery_properties(rm, size) ==
  IF rm.current = <<>> THEN rm ELSE [rm EXCEPT !.current[1].size = size]

\* ReturnedMessages::receive_delivery_content
receive_delivery_content(rm, n) ==
  IF rm.current = <<>> THEN rm ELSE [rm EXCEPT !.current[1].got = @ + n]

\* ReturnedMessages::new_delivery_complete: the message in flight joins the
\* returned messages
new_delivery_complete(rm) ==
  IF rm.current = <<>> THEN rm
  ELSE [current |-> <<>>, messages |-> Append(rm.messages, rm.current[1])]

\* Channel::set_error (the channel also leaves the connection)
set_error(ch) == [chan_state EXCEPT ![ch] = Error]

\* on_basic_return_received: a returned message starts, its content follows
on_basic_return_received(ch) ==
  /\ can_receive(ch)
  /\ inbound' = inbound + 1
  /\ IF ~is_connected(chan_state[ch])
     THEN /\ receive_refused(ch, "basic.return", 0, FALSE)
          /\ UNCHANGED <<returned_messages, chan_state>>
     ELSE /\ returned_messages' = [returned_messages EXCEPT
                                     ![ch] = start_new_delivery(@)]
          /\ chan_state' = [chan_state EXCEPT ![ch] = WillReceiveContent("-", "-")]
          /\ last_in' = [Received(ch, "basic.return", 0, FALSE, 0) EXCEPT
                           !.after = WillReceiveContent("-", "-")]
          /\ UNCHANGED <<io_err, chan_errors>>
  /\ UNCHANGED <<frame_max, conn_state, channel_max, heartbeat, connect_wait,
                 blocked, confirm, delivery_tag, pending, confirmed, queues,
                 frames, expected_replies, status, frame_size, send_buffer,
                 can_write, has_data, send_heartbeat, hb_handle,
                 continue_ready, io_thread, hb_joined, last_take, can_read,
                 receive_buffer, receive_data, net, arrived, readable_event,
                 sent_in, dispatched, data_ready, pc, cur, wire, requeued,
                 enqueued, replied, unresolved, failed, publishes, tag_log,
                 confirm_waits, handler, last_conn, content, completed,
                 sends, beats>>

\* on_basic_deliver_received: when the consumer is registered its delivery
\* starts and content follows; otherwise nothing changes
on_basic_deliver_received(ch) ==
  /\ can_receive(ch)
  /\ inbound' = inbound + 1
  /\ IF ~is_connected(chan_state[ch])
     THEN /\ receive_refused(ch, "basic.deliver", 0, FALSE)
          /\ UNCHANGED <<queues, chan_state>>
     ELSE /\ IF queues[ch].consumer
             THEN /\ queues' = [queues EXCEPT ![ch].current = <<[size |-> 0, got |-> 0]>>]
                  /\ chan_state' = [chan_state EXCEPT ![ch] = WillReceiveContent("q", "c")]
             ELSE UNCHANGED <<queues, chan_state>>
          /\ last_in' = [Received(ch, "basic.deliver", 0, FALSE, 0) EXCEPT
                           !.after = chan_state'[ch]]
          /\ UNCHANGED <<io_err, chan_errors>>
  /\ UNCHANGED <<frame_max, conn_state, channel_max, heartbeat, connect_wait,
                 blocked, confirm, delivery_tag, pending, confirmed,
                 returned_messages, frames, expected_replies, status,
                 frame_size, send_buffer, can_write, has_data,
                 send_heartbeat, hb_handle, continue_ready, io_thread,
                 hb_joined, last_take, can_read, receive_buffer,
                 receive_data, net, arrived, readable_event, sent_in,
                 dispatched, data_ready, pc, cur, wire, requeued, enqueued,
                 replied, unresolved, failed, publishes, tag_log,
                 confirm_waits, handler, last_conn, content, completed,
                 sends, beats>>

\* handle_content_header_frame: in WillReceiveContent the channel goes on to
\* ReceivingContent(size), or back to Connected when size is 0, the delivery
\* then being complete; in any other state the channel is set to Error
handle_content_header_frame(ch, size) ==
  /\ can_receive(ch)
  /\ inbound' = inbound + 1
  /\ content' = [content EXCEPT ![ch] = [size |-> size, got |-> 0]]
  /\ LET st == chan_state[ch]
     IN IF st.s = "WillReceiveContent"
        THEN /\ chan_state' = [chan_state EXCEPT ![ch] =
                  IF size > 0 THEN ReceivingContent(st.q, st.t, size) ELSE Connected]
             /\ IF st.q # "-"
                THEN /\ queues' = [queues EXCEPT ![ch].current =
                          IF size = 0 \/ @ = <<>> THEN <<>>
                          ELSE <<[size |-> size, got |-> 0]>>]
                     /\ completed' = [completed EXCEPT ![ch] =
                          IF size = 0 /\ queues[ch].current # <<>>
                          THEN Append(@, [kind |-> "delivery", size |-> size, got |-> 0])
                          ELSE @]
                     /\ UNCHANGED returned_messages
                ELSE /\ returned_messages' = [returned_messages EXCEPT ![ch] =
                          IF size = 0
                          THEN new_delivery_complete(set_delivery_properties(@, size))
                          ELSE set_delivery_properties(@, size)]
                     /\ completed' = [completed EXCEPT ![ch] =
                          IF size = 0 /\ returned_messages[ch].current # <<>>
                          THEN Append(@, [kind |-> "return", size |-> size, got |-> 0])
                          ELSE @]
                     /\ UNCHANGED queues
        ELSE /\ chan_state' = set_error(ch)
             /\ UNCHANGED <<queues, returned_messages, completed>>
  /\ last_in' = [Received(ch, "header", 0, FALSE, size) EXCEPT
                   !.after = chan_state'[ch],
                   !.done = completed'[ch] # completed[ch]]
  /\ UNCHANGED <<frame_max, conn_state, channel_max, heartbeat, connect_wait,
                 blocked, confirm, delivery_tag, pending, confirmed, frames,
                 expected_replies, status, frame_size, send_buffer,
                 can_write, has_data, send_heartbeat, hb_handle,
                 continue_ready, io_thread, hb_joined, last_take, can_read,
                 receive_buffer, receive_data, net, arrived, readable_event,
                 sent_in, dispatched, data_ready, pc, cur, wire, requeued,
                 enqueued, replied, unresolved, failed, publishes, tag_log,
                 confirm_waits, io_err, handler, last_conn, chan_errors,
                 sends, beats>>

\* handle_body_frame: in ReceivingContent a payload of at most the remaining
\* size is taken, the delivery being complete when nothing remains; a larger
\* payload, or any other state, sets the channel to Error
handle_body_frame(ch, payload_size) ==
  /\ can_receive(ch)
  /\ inbound' = inbound + 1
  /\ content' = [content EXCEPT ![ch].got = @ + payload_size]
  /\ LET st == chan_state[ch]
     IN IF st.s = "ReceivingContent" /\ st.remaining >= payload_size
        THEN /\ chan_state' = [chan_state EXCEPT ![ch] =
                  IF st.remaining = payload_size THEN Connected
                  ELSE ReceivingContent(st.q, st.t, st.remaining - payload_size)]
             /\ IF st.q # "-"
                THEN /\ queues' = [queues EXCEPT ![ch].current =
                          IF @ = <<>> \/ st.remaining = payload_size THEN <<>>
                          ELSE <<[@[1] EXCEPT !.got = @ + payload_size]>>]
                     /\ completed' = [completed EXCEPT ![ch] =
                          IF st.remaining = payload_size /\ queues[ch].current # <<>>
                          THEN Append(@, [kind |-> "delivery",
                                          size |-> content[ch].size,
                                          got |-> content[ch].got + payload_size])
                          ELSE @]
                     /\ UNCHANGED returned_messages
                ELSE /\ returned_messages' = [returned_messages EXCEPT ![ch] =
                          IF st.remaining = payload_size
                          THEN new_delivery_complete(
                                 receive_delivery_content(@, payload_size))
                          ELSE receive_delivery_content(@, payload_size)]
                     /\ completed' = [completed EXCEPT ![ch] =
                          IF st.remaining = payload_size
                             /\ returned_messages[ch].current # <<>>
                          THEN Append(@, [kind |-> "return",
                                          size |-> content[ch].size,
                                          got |-> content[ch].got + payload_size])
                          ELSE @]
                     /\ UNCHANGED queues
        ELSE /\ chan_state' = set_error(ch)
             /\ UNCHANGED <<queues, returned_messages, completed>>
  /\ last_in' = [Received(ch, "body", 0, FALSE, payload_size) EXCEPT
                   !.after = chan_state'[ch],
                   !.done = completed'[ch] # completed[ch]]
  /\ UNCHANGED <<frame_max, conn_state, channel_max, heartbeat, connect_wait,
                 blocked, confirm, delivery_tag, pending, confirmed, frames,
                 expected_replies, status, frame_size, send_buffer,
                 can_write, has_data, send_heartbeat, hb_handle,
                 continue_ready, io_thread, hb_joined, last_take, can_read,
                 receive_buffer, receive_data, net, arrived, readable_event,
                 sent_in, dispatched, data_ready, pc, cur, wire, requeued,
                 enqueued, replied, unresolved, failed, publishes, tag_log,
                 confirm_waits, io_err, handler, last_conn, chan_errors,
                 sends, beats>>

\* ---------------------------------------------------- connection handshake
\* the protocol header Connection::connect enqueues before anything else
ProtocolHeaderFrame ==
  [MethodFrame(0, "-", 0, NoArg, NoReply) EXCEPT !.type = "ProtocolHeader"]

\* a method frame of channel 0, without expected reply
ConnectionMethod(m, arg) == MethodFrame(0, m, 0, arg, NoReply)

\* the configuration of the connection
configuration ==
  [channel_max |-> channel_max, frame_max |-> frame_max, heartbeat |-> heartbeat]

\* a connection-level frame can be handled: the I/O thread is between frames
connection_frame == io_running /\ inbound < MaxInbound

\* a handshake method received in a state that is not its own:
\* connection.set_error() and Err(InvalidConnectionState(state))
invalid_connection_state(m) ==
  /\ connection_set_error
  /\ io_err' = "InvalidConnectionState"
  /\ chan_errors' = Append(chan_errors, [channel |-> 0,
                                         error |-> "InvalidConnectionState"])
  /\ last_conn' = [NoEvent EXCEPT !.method = m, !.before = conn_state,
                                  !.after = "Error", !.wait = connect_wait,
                                  !.queue = frames.HIGH,
                                  !.err = [kind |-> "InvalidConnectionState",
                                           state |-> conn_state]]

\* on_connection_start_received: in SentProtocolHeader, start-ok is sent and
\* the state is SentStartOk (on_connection_start_ok_sent)
on_connection_start_received ==
  /\ connection_frame
  /\ inbound' = inbound + 1
  /\ IF conn_state = "SentProtocolHeader"
     THEN /\ send_frame(ConnectionMethod("connection.start-ok", NoArg))
          /\ conn_state' = "SentStartOk"
          /\ last_conn' = [NoEvent EXCEPT
               !.method = "connection.start", !.before = conn_state,
               !.after = "SentStartOk", !.wait = connect_wait,
               !.queue = Append(frames.HIGH,
                                ConnectionMethod("connection.start-ok", NoArg))]
          /\ UNCHANGED <<chan_state, io_err, chan_errors>>
     ELSE /\ invalid_connection_state("connection.start")
          /\ UNCHANGED <<frames, data_ready, enqueued>>
  /\ UNCHANGED <<frame_max, channel_max, heartbeat, connect_wait, blocked,
                 confirm, delivery_tag, pending, confirmed, queues,
                 returned_messages, expected_replies, status, frame_size,
                 send_buffer, can_write, has_data, send_heartbeat, hb_handle,
                 continue_ready, io_thread, hb_joined, last_take, can_read,
                 receive_buffer, receive_data, net, arrived, readable_event,
                 sent_in, dispatched, pc, cur, wire, requeued, replied,
                 unresolved, failed, publishes, tag_log, confirm_waits,
                 handler, last_in, content, completed, sends, beats>>

\* on_connection_secure_received that answers in any state
on_connection_secure_received_any ==
  /\ connection_frame
  /\ inbound' = inbound + 1
  /\ send_frame(ConnectionMethod("connection.secure-ok", NoArg))
  /\ last_conn' = [NoEvent EXCEPT
       !.method = "connection.secure", !.before = conn_state,
       !.after = conn_state, !.wait = connect_wait,
       !.queue = Append(frames.HIGH,
                        ConnectionMethod("connection.secure-ok", NoArg))]
  /\ UNCHANGED <<frame_max, conn_state, channel_max, heartbeat, connect_wait,
                 blocked, chan_state, confirm, delivery_tag, pending,
                 confirmed, queues, returned_messages, expected_replies,
                 status, frame_size, send_buffer, can_write, has_data,
                 send_heartbeat, hb_handle, continue_ready, io_thread,
                 hb_joined, last_take, can_read, receive_buffer,
                 receive_data, net, arrived, readable_event, sent_in,
                 dispatched, pc, cur, wire, requeued, replied, unresolved,
                 failed, publishes, tag_log, confirm_waits, io_err, handler,
                 last_in, content, chan_errors, completed, sends, beats>>

\* on_connection_secure_received: in SentStartOk, secure-ok is sent
on_connection_secure_received ==
  /\ connection_frame
  /\ inbound' = inbound + 1
  /\ IF conn_state = "SentStartOk"
     THEN /\ send_frame(ConnectionMethod("connection.secure-ok", NoArg))
          /\ last_conn' = [NoEvent EXCEPT
               !.method = "connection.secure", !.before = conn_state,
               !.after = conn_state, !.wait = connect_wait,
               !.queue = Append(frames.HIGH,
                                ConnectionMethod("connection.secure-ok", NoArg))]
          /\ UNCHANGED <<conn_state, chan_state, io_err, chan_errors>>
     ELSE /\ invalid_connection_state("connection.secure")
          /\ UNCHANGED <<frames, data_ready, enqueued>>
  /\ UNCHANGED <<frame_max, channel_max, heartbeat, connect_wait, blocked,
                 confirm, delivery_tag, pending, confirmed, queues,
                 returned_messages, expected_replies, status, frame_size,
                 send_buffer, can_write, has_data, send_heartbeat, hb_handle,
                 continue_ready, io_thread, hb_joined, last_take, can_read,
                 receive_buffer, receive_data, net, arrived, readable_event,
                 sent_in, dispatched, pc, cur, wire, requeued, replied,
                 unresolved, failed, publishes, tag_log, confirm_waits,
                 handler, last_in, content, completed, sends, beats>>

\* tune_connection_configuration that takes the server's limit only when it
\* is lower than ours
tune_connection_configuration_lowest(cfg, server) ==
  LET hb == IF cfg.heartbeat = 0
               \/ (server.heartbeat # 0 /\ server.heartbeat < cfg.heartbeat)
            THEN server.heartbeat ELSE cfg.heartbeat
      cm1 == IF server.channel_max # 0 /\ server.channel_max < cfg.channel_max
             THEN server.channel_max ELSE cfg.channel_max
      fm1 == IF server.frame_max # 0 /\ server.frame_max < cfg.frame_max
             THEN server.frame_max ELSE cfg.frame_max
  IN [channel_max |-> IF cm1 = 0 THEN U16Max ELSE cm1,
      frame_max |-> IF fm1 = 0 THEN U32Max ELSE fm1,
      heartbeat |-> hb]

\* tune_connection_configuration with the server's heartbeat taken whenever
\* it is smaller, 0 included
tune_connection_configuration_zero(cfg, server) ==
  LET hb == IF cfg.heartbeat = 0 \/ server.heartbeat < cfg.heartbeat
            THEN server.heartbeat ELSE cfg.heartbeat
      cm1 == IF server.channel_max # 0
                /\ (cfg.channel_max = 0 \/ server.channel_max < cfg.channel_max)
             THEN server.channel_max ELSE cfg.channel_max
      fm1 == IF server.frame_max # 0
                /\ (cfg.frame_max = 0 \/ server.frame_max < cfg.frame_max)
             THEN server.frame_max ELSE cfg.frame_max
  IN [channel_max |-> IF cm1 = 0 THEN U16Max ELSE cm1,
      frame_max |-> IF fm1 = 0 THEN U32Max ELSE fm1,
      heartbeat |-> hb]

\* tune_connection_configuration: the heartbeat is the server's when ours is 0
\* or the server's is not 0 and smaller; channel_max and frame_max are the
\* server's when it is not 0 and ours is 0 or larger, and the type's largest
\* value when they are still 0 after that
tune_connection_configuration(cfg, server) ==
  LET hb == IF cfg.heartbeat = 0
               \/ (server.heartbeat # 0 /\ server.heartbeat < cfg.heartbeat)
            THEN server.heartbeat ELSE cfg.heartbeat
      cm1 == IF server.channel_max # 0
                /\ (cfg.channel_max = 0 \/ server.channel_max < cfg.channel_max)
             THEN server.channel_max ELSE cfg.channel_max
      fm1 == IF server.frame_max # 0
                /\ (cfg.frame_max = 0 \/ server.frame_max < cfg.frame_max)
             THEN server.frame_max ELSE cfg.frame_max
  IN [channel_max |-> IF cm1 = 0 THEN U16Max ELSE cm1,
      frame_max |-> IF fm1 = 0 THEN U32Max ELSE fm1,
      heartbeat |-> hb]

\* on_connection_tune_received: in SentStartOk the configuration is tuned,
\* tune-ok is sent with the tuned values, then open is sent and the state is
\* SentOpen (on_connection_open_sent)
on_connection_tune_received(server) ==
  /\ connection_frame
  /\ inbound' = inbound + 1
  /\ IF conn_state = "SentStartOk"
     THEN LET cfg == tune_connection_configuration(configuration, server)
              sent == <<ConnectionMethod("connection.tune-ok", cfg),
                        ConnectionMethod("connection.open", NoArg)>>
          IN /\ channel_max' = cfg.channel_max
             /\ frame_max' = cfg.frame_max
             /\ heartbeat' = cfg.heartbeat
             /\ frames' = FramesPush(FramesPush(frames, sent[1]), sent[2])
             /\ data_ready' = TRUE
             /\ conn_state' = "SentOpen"
             /\ last_conn' = [NoEvent EXCEPT
                  !.method = "connection.tune", !.before = conn_state,
                  !.after = "SentOpen", !.wait = connect_wait,
                  !.queue = frames.HIGH \o sent,
                  !.client = configuration, !.server = server]
             /\ UNCHANGED <<chan_state, io_err, chan_errors>>
     ELSE /\ invalid_connection_state("connection.tune")
          /\ UNCHANGED <<channel_max, frame_max, heartbeat, frames, data_ready>>
  /\ UNCHANGED <<connect_wait, blocked, confirm, delivery_tag, pending,
                 confirmed, queues, returned_messages, expected_replies,
                 status, frame_size, send_buffer, can_write, has_data,
                 send_heartbeat, hb_handle, continue_ready, io_thread,
                 hb_joined, last_take, can_read, receive_buffer,
                 receive_data, net, arrived, readable_event, sent_in,
                 dispatched, pc, cur, wire, requeued, enqueued, replied,
                 unresolved, failed, publishes, tag_log, confirm_waits,
                 handler, last_in, content, completed, sends, beats>>

\* on_connection_open_ok_received that finishes the connect Wait in any state
on_connection_open_ok_received_any ==
  /\ connection_frame
  /\ inbound' = inbound + 1
  /\ conn_state' = "Connected"
  /\ connect_wait' = Append(connect_wait, "Connection")
  /\ last_conn' = [NoEvent EXCEPT
       !.method = "connection.open-ok", !.before = conn_state,
       !.after = "Connected",
       !.wait = Append(connect_wait, "Connection"),
       !.queue = frames.HIGH]
  /\ UNCHANGED <<frame_max, channel_max, heartbeat, blocked, chan_state,
                 confirm, delivery_tag, pending, confirmed, queues,
                 returned_messages, frames, expected_replies, status,
                 frame_size, send_buffer, can_write, has_data,
                 send_heartbeat, hb_handle, continue_ready, io_thread,
                 hb_joined, last_take, can_read, receive_buffer,
                 receive_data, net, arrived, readable_event, sent_in,
                 dispatched, data_ready, pc, cur, wire, requeued, enqueued,
                 replied, unresolved, failed, publishes, tag_log,
                 confirm_waits, io_err, handler, last_in, content,
                 chan_errors, completed, sends, beats>>

\* on_connection_open_ok_received: in SentOpen the connection is Connected
\* and the connect Wait is finished with the connection
on_connection_open_ok_received ==
  /\ connection_frame
  /\ inbound' = inbound + 1
  /\ IF conn_state = "SentOpen"
     THEN /\ conn_state' = "Connected"
          /\ connect_wait' = Append(connect_wait, "Connection")
          /\ last_conn' = [NoEvent EXCEPT
               !.method = "connection.open-ok", !.before = conn_state,
               !.after = "Connected",
               !.wait = Append(connect_wait, "Connection"),
               !.queue = frames.HIGH]
          /\ UNCHANGED <<chan_state, io_err, chan_errors>>
     ELSE /\ invalid_connection_state("connection.open-ok")
          /\ UNCHANGED connect_wait
  /\ UNCHANGED <<frame_max, channel_max, heartbeat, blocked, confirm,
                 delivery_tag, pending, confirmed, queues, returned_messages,
                 frames, expected_replies, status, frame_size, send_buffer,
                 can_write, has_data, send_heartbeat, hb_handle,
                 continue_ready, io_thread, hb_joined, last_take, can_read,
                 receive_buffer, receive_data, net, arrived, readable_event,
                 sent_in, dispatched, data_ready, pc, cur, wire, requeued,
                 enqueued, replied, unresolved, failed, publishes, tag_log,
                 confirm_waits, handler, last_in, content, completed, sends,
                 beats>>

\* on_connection_blocked_received: connection.block()
on_connection_blocked_received ==
  /\ connection_frame
  /\ inbound' = inbound + 1
  /\ blocked' = TRUE
  /\ last_conn' = [NoEvent EXCEPT !.method = "connection.blocked",
                                  !.before = conn_state, !.after = conn_state,
                                  !.wait = connect_wait]
  /\ UNCHANGED <<frame_max, conn_state, channel_max, heartbeat, connect_wait,
                 chan_state, confirm, delivery_tag, pending, confirmed,
                 queues, returned_messages, frames, expected_replies, status,
                 frame_size, send_buffer, can_write, has_data,
                 send_heartbeat, hb_handle, continue_ready, io_thread,
                 hb_joined, last_take, can_read, receive_buffer,
                 receive_data, net, arrived, readable_event, sent_in,
                 dispatched, data_ready, pc, cur, wire, requeued, enqueued,
                 replied, unresolved, failed, publishes, tag_log,
                 confirm_waits, io_err, handler, last_in, content,
                 chan_errors, completed, sends, beats>>

\* on_connection_unblocked_received: connection.unblock()
on_connection_unblocked_received ==
  /\ connection_frame
  /\ inbound' = inbound + 1
  /\ blocked' = FALSE
  /\ last_conn' = [NoEvent EXCEPT !.method = "connection.unblocked",
                                  !.before = conn_state, !.after = conn_state,
                                  !.wait = connect_wait, !.queue = frames.LOW]
  /\ UNCHANGED <<frame_max, conn_state, channel_max, heartbeat, connect_wait,
                 chan_state, confirm, delivery_tag, pending, confirmed,
                 queues, returned_messages, frames, expected_replies, status,
                 frame_size, send_buffer, can_write, has_data,
                 send_heartbeat, hb_handle, continue_ready, io_thread,
                 hb_joined, last_take, can_read, receive_buffer,
                 receive_data, net, arrived, readable_event, sent_in,
                 dispatched, data_ready, pc, cur, wire, requeued, enqueued,
                 replied, unresolved, failed, publishes, tag_log,
                 confirm_waits, io_err, handler, last_in, content,
                 chan_errors, completed, sends, beats>>

\* the states that hold the WaitHandle of Connection::connect
HandshakeStates == {"SentProtocolHeader", "SentStartOk", "SentOpen"}

\* Connection::drop_pending_frames: the frame queue is emptied
drop_pending_frames == [HIGH |-> <<>>, LOW |-> <<>>]

\* on_connection_close_received that fails the connect Wait of SentOpen only
on_connection_close_received_open ==
  /\ connection_frame
  /\ inbound' = inbound + 1
  /\ frames' = FramesPush(drop_pending_frames,
                          ConnectionMethod("connection.close-ok", NoArg))
  /\ data_ready' = TRUE
  /\ conn_state' = "Closed"
  /\ connect_wait' = IF conn_state = "SentOpen"
                     THEN Append(connect_wait, "ConnectionRefused")
                     ELSE connect_wait
  /\ last_conn' = [NoEvent EXCEPT
       !.method = "connection.close", !.before = conn_state,
       !.after = conn_state', !.wait = connect_wait',
       !.queue = frames'.HIGH \o frames'.LOW, !.status = status]
  /\ UNCHANGED <<frame_max, channel_max, heartbeat, blocked, chan_state,
                 confirm, delivery_tag, pending, confirmed, queues,
                 returned_messages, expected_replies, status, frame_size,
                 send_buffer, can_write, has_data, send_heartbeat, hb_handle,
                 continue_ready, io_thread, hb_joined, last_take, can_read,
                 receive_buffer, receive_data, net, arrived, readable_event,
                 sent_in, dispatched, pc, cur, wire, requeued, enqueued,
                 replied, unresolved, failed, publishes, tag_log,
                 confirm_waits, io_err, handler, last_in, content,
                 chan_errors, completed, sends, beats>>

\* on_connection_close_received: set_closing, drop_pending_frames, close-ok
\* is sent and the connection is Closed (on_connection_close_ok_sent); then
\* the connect Wait a handshake state held fails with ConnectionRefused
on_connection_close_received ==
  /\ connection_frame
  /\ inbound' = inbound + 1
  /\ frames' = FramesPush(drop_pending_frames,
                          ConnectionMethod("connection.close-ok", NoArg))
  /\ data_ready' = TRUE
  /\ conn_state' = "Closed"
  /\ connect_wait' = IF conn_state \in HandshakeStates
                     THEN Append(connect_wait, "ConnectionRefused")
                     ELSE connect_wait
  /\ last_conn' = [NoEvent EXCEPT
       !.method = "connection.close", !.before = conn_state,
       !.after = conn_state', !.wait = connect_wait',
       !.queue = frames'.HIGH \o frames'.LOW, !.status = status]
  /\ UNCHANGED <<frame_max, channel_max, heartbeat, blocked, chan_state,
                 confirm, delivery_tag, pending, confirmed, queues,
                 returned_messages, expected_replies, status, frame_size,
                 send_buffer, can_write, has_data, send_heartbeat, hb_handle,
                 continue_ready, io_thread, hb_joined, last_take, can_read,
                 receive_buffer, receive_data, net, arrived, readable_event,
                 sent_in, dispatched, pc, cur, wire, requeued, enqueued,
                 replied, unresolved, failed, publishes, tag_log,
                 confirm_waits, io_err, handler, last_in, content,
                 chan_errors, completed, sends, beats>>

\* Connection::close by a caller: connection.close is enqueued and the
\* connection is Closing (on_connection_close_sent)
connection_close(t) ==
  /\ pc[t] = "idle"
  /\ conn_state = "Connected"
  /\ sends < MaxSends
  /\ send_frame(ConnectionMethod("connection.close", NoArg))
  /\ conn_state' = "Closing"
  /\ sends' = sends + 1
  /\ UNCHANGED <<frame_max, channel_max, heartbeat, connect_wait, blocked,
                 chan_state, confirm, delivery_tag, pending, confirmed,
                 queues, returned_messages, expected_replies, status,
                 frame_size, send_buffer, can_write, has_data,
                 send_heartbeat, hb_handle, continue_ready, io_thread,
                 hb_joined, last_take, can_read, receive_buffer,
                 receive_data, net, arrived, readable_event, sent_in,
                 dispatched, pc, cur, wire, requeued, replied, unresolved,
                 failed, publishes, tag_log, confirm_waits, io_err, handler,
                 last_in, last_conn, content, chan_errors, completed,
                 inbound, beats>>

\* the Queues of a channel: no consumer, no delivery in flight
NoQueues == [consumer |-> FALSE, current |-> <<>>]

\* ------------------------------------------------------------ initial state
\* the channels are open, no call is under way, nothing was sent or received
InitIdle ==
  /\ chan_state = [c \in ChannelIds |-> Connected]
  /\ delivery_tag = [c \in ChannelIds |-> 1]
  /\ pending = [c \in ChannelIds |-> {}]
  /\ confirmed = [c \in ChannelIds |-> {}]
  /\ returned_messages = [c \in ChannelIds |-> [current |-> <<>>, messages |-> <<>>]]
  /\ expected_replies = [c \in ChannelIds |-> <<>>]
  /\ send_buffer = EmptyBuffer
  /\ can_write = FALSE
  /\ has_data = FALSE
  /\ send_heartbeat = FALSE
  /\ continue_ready = FALSE
  /\ io_thread = "running"
  /\ hb_joined = FALSE
  /\ last_take = NoTake
  /\ can_read = FALSE
  /\ receive_buffer = EmptyBuffer
  /\ receive_data = <<>>
  /\ net = <<>>
  /\ arrived = 0
  /\ readable_event = FALSE
  /\ sent_in = 0
  /\ dispatched = <<>>
  /\ blocked = FALSE
  /\ io_err = NoErr
  /\ handler = NoHandler
  /\ last_in = NoFrame
  /\ last_conn = NoEvent
  /\ content = [c \in ChannelIds |-> [size |-> 0, got |-> 0]]
  /\ pc = [t \in Threads |-> "idle"]
  /\ cur = [t \in Threads |-> Idle]
  /\ wire = <<>>
  /\ requeued = {}
  /\ enqueued = 0
  /\ replied = [c \in ChannelIds |-> <<>>]
  /\ unresolved = <<>>
  /\ failed = <<>>
  /\ publishes = <<>>
  /\ tag_log = [c \in ChannelIds |-> <<>>]
  /\ confirm_waits = <<>>
  /\ chan_errors = <<>>
  /\ completed = [c \in ChannelIds |-> <<>>]
  /\ inbound = 0
  /\ sends = 0
  /\ beats = 0

\* the connection is connected and tuned, the I/O loop is set up
InitRest ==
  /\ frame_max \in FrameMaxValues
  /\ channel_max = U16Max
  /\ heartbeat = 0
  /\ conn_state = "Connected"
  /\ connect_wait = <<"Connection">>
  /\ status = "Setup"
  /\ hb_handle = FALSE
  /\ frame_size = Max(MinFrameSize, frame_max)
  /\ frames = [HIGH |-> <<>>, LOW |-> <<>>]
  /\ data_ready = FALSE
  /\ InitIdle

\* Channel::new: confirm mode is off
Init ==
  /\ confirm = [c \in ChannelIds |-> FALSE]
  /\ queues = [c \in ChannelIds |-> NoQueues]
  /\ InitRest

\* ------------------------------------------------- publishing on a channel
\* the channel the publishes go to
PublishChannels == {1}

\* confirm mode was selected on some channels (confirm.select-ok received)
InitPublish ==
  /\ confirm \in {f \in [ChannelIds -> BOOLEAN] :
                    \A c \in ChannelIds \ PublishChannels : ~f[c]}
  /\ queues = [c \in ChannelIds |-> NoQueues]
  /\ InitRest

NextPublish ==
  \/ \E t \in Threads, ch \in PublishChannels, p \in PublishPayloads : basic_publish(t, ch, p)
  \/ \E t \in Threads : on_basic_publish_sent(t)
  \/ \E t \in Threads : send_content_header(t)
  \/ \E t \in Threads : send_content_body(t)
  \/ \E t \in Threads, ch \in ChannelIds : basic_ack(t, ch)
  \/ do_run(TRUE, Writable)

SpecPublish == InitPublish /\ [][NextPublish]_vars

\* the frames of one channel, in the order they were dequeued for the wire
ChanWire(ch) ==
  LET OnChannel(f) == f.channel = ch IN SelectSeq(wire, OnChannel)

\* f is a content frame (header or body) of publish p
ContentOf(f, p) == f.type \in {"Header", "Body"} /\ f.pub = p

\* C1: on every channel, between the content header of a publish and any of
\* its body frames the wire carries nothing but body frames of that publish
C1_ContentFramesContiguous ==
  \A ch \in ChannelIds :
    LET w == ChanWire(ch)
    IN \A i, k \in 1..Len(w) :
         (i < k /\ w[i].type = "Header" /\ w[k].type = "Body" /\ w[k].pub = w[i].pub)
         => \A j \in (i + 1)..(k - 1) : w[j].type = "Body" /\ w[j].pub = w[i].pub

\* C2: on every channel, a basic.publish method frame is followed directly by
\* the content header of its own publish, and nothing but content frames of
\* that publish lies between the method frame and any of its content frames
C2_MethodThenOwnContent ==
  \A ch \in ChannelIds :
    LET w == ChanWire(ch)
    IN \A i \in 1..Len(w) :
         (w[i].type = "Method" /\ w[i].method = "basic.publish")
         => /\ i < Len(w) => (w[i + 1].type = "Header" /\ w[i + 1].pub = w[i].pub)
            /\ \A k \in (i + 1)..Len(w) :
                 ContentOf(w[k], w[i].pub)
                 => \A j \in (i + 1)..k : ContentOf(w[j], w[i].pub)

\* C6: of two publishes on one channel in confirm mode, the one whose method
\* frame was enqueued first has the smaller delivery tag
C6_TagsFollowSendOrder ==
  \A p, q \in 1..Len(publishes) :
    (/\ p < q
     /\ publishes[p].channel = publishes[q].channel
     /\ publishes[p].mode = "confirm"
     /\ publishes[q].mode = "confirm")
    => publishes[p].tag < publishes[q].tag

\* --------------------------------------------------- publisher delivery tags
NextTags ==
  \/ \E t \in Threads, ch \in ChannelIds, p \in PublishPayloads : basic_publish(t, ch, p)
  \/ \E t \in Threads : on_basic_publish_sent(t)
  \/ \E t \in Threads : send_content_header(t)
  \/ \E t \in Threads : send_content_body(t)
  \/ \E ch \in ChannelIds : on_confirm_select_ok_received(ch)

SpecTags == Init /\ [][NextTags]_vars

\* the publishes of channel ch that were given a tag
Tagged(ch) ==
  {p \in 1..Len(publishes) : publishes[p].channel = ch /\ publishes[p].mode = "confirm"}

\* C5: on every channel the k-th tag assigned is k and is registered as
\* pending, the tagged publishes hold the tags 1..n, each once, and a publish
\* made with confirm mode off has no tag and leaves the sequence where it was
C5_TagsSequential ==
  \A ch \in ChannelIds :
    /\ \A k \in 1..Len(tag_log[ch]) : tag_log[ch][k] = k /\ k \in pending[ch]
    /\ delivery_tag[ch] = Cardinality(Tagged(ch)) + 1
    /\ {publishes[p].tag : p \in Tagged(ch)} = 1..Len(tag_log[ch])
    /\ Cardinality(Tagged(ch)) = Len(tag_log[ch])
    /\ \A p \in 1..Len(publishes) : publishes[p].mode = "plain" => publishes[p].tag = 0

\* C5 witness: a channel in confirm mode has given out two tags
C5_Witness == \E ch \in ChannelIds : Len(tag_log[ch]) >= 2

\* ------------------------------------------------------ publisher confirms
\* the caller thread that publishes and waits for the confirms
ConfirmThreads == {1}

\* the delivery tags the server may name in an ack or a nack
AckTags == 0..MaxPublish

NextConfirm ==
  \/ \E t \in ConfirmThreads, ch \in PublishChannels : basic_publish(t, ch, <<>>)
  \/ \E t \in ConfirmThreads : on_basic_publish_sent(t)
  \/ \E t \in ConfirmThreads : send_content_header(t)
  \/ \E t \in ConfirmThreads, ch \in PublishChannels : wait_for_confirms(t, ch)
  \/ \E i \in 1..MaxWaits : confirmation_map(i)
  \/ \E t \in ConfirmThreads, ch \in PublishChannels, code \in ReplyCodes :
       close(t, ch, code)
  \/ \E ch \in PublishChannels, tag \in AckTags, multiple \in BOOLEAN :
       on_basic_ack_received(ch, tag, multiple)
  \/ \E ch \in PublishChannels, tag \in AckTags, multiple \in BOOLEAN :
       on_basic_nack_received(ch, tag, multiple)
  \/ acknowledgement_error
  \/ parse_error
  \/ \E ch \in PublishChannels : on_basic_return_received(ch)
  \/ \E ch \in PublishChannels : handle_content_header_frame(ch, 0)

SpecConfirm == InitPublish /\ [][NextConfirm]_vars

\* C3: a Wait returned by wait_for_confirms is resolved exactly when none of
\* the tags that were pending at the call is pending any more
C3_WaitResolvesWhenNonePending ==
  \A i \in 1..Len(confirm_waits) :
    LET w == confirm_waits[i]
    IN (w.tag = 0 \/ resolved(w.channel, w.tag))
       <=> (w.at_call \cap pending[w.channel] = {})

\* C4: a wait_for_confirms call made while no tag is pending returns a Wait
\* that is already resolved, whose value is the messages returned since the
\* last drain, and the call leaves the returned-messages buffer drained
C4_ImmediateWaitDrainsReturns ==
  \A i \in 1..Len(confirm_waits) :
    LET w == confirm_waits[i]
    IN w.at_call = {}
       => /\ w.finished
          /\ w.value = w.returns_at_call
          /\ w.returns_after = <<>>

\* C8: when matching a received ack or nack fails, channel.close is sent with
\* code 406 and the class and method id of the ack or nack, the channel is
\* Closing, and the handler returns the matching error
C8_MatchErrorClosesChannel ==
  (/\ last_in.method \in {"basic.ack", "basic.nack"}
   /\ ~last_in.matched
   /\ handler = NoHandler)
  => /\ last_in.close =
          [code |-> PRECONDITIONFAILED, class_id |-> BasicClassId,
           method_id |-> IF last_in.method = "basic.ack" THEN BasicAckMethodId
                         ELSE BasicNackMethodId]
     /\ last_in.after = Closing
     /\ last_in.err = "PreconditionFailed"

\* ---------------------------------------------------------- received acks
NextAck ==
  \/ \E t \in ConfirmThreads, ch \in PublishChannels : basic_publish(t, ch, <<>>)
  \/ \E t \in ConfirmThreads : on_basic_publish_sent(t)
  \/ \E t \in ConfirmThreads : send_content_header(t)
  \/ \E ch \in PublishChannels, tag \in AckTags, multiple \in BOOLEAN :
       on_basic_ack_received(ch, tag, multiple)
  \/ acknowledgement_error
  \/ parse_error

SpecAck == InitPublish /\ [][NextAck]_vars

\* C7: a basic.ack(tag, multiple) handled in confirm mode leaves pending:
\* without multiple, the pending set less the tag, an unknown tag being an
\* error that removes nothing; with multiple and tag > 0, the pending tags
\* above the tag; with multiple and tag 0, no tag
C7_AckRemovesExactly ==
  (/\ last_in.method = "basic.ack"
   /\ last_in.confirm
   /\ is_connected(last_in.before))
  => LET b == last_in.pending_before
         a == last_in.pending_after
     IN /\ (~last_in.multiple /\ last_in.tag \in b)
             => (a = b \ {last_in.tag} /\ last_in.matched)
        /\ (~last_in.multiple /\ last_in.tag \notin b)
             => (a = b /\ ~last_in.matched)
        /\ (last_in.multiple /\ last_in.tag > 0)
             => (a = {t \in b : t > last_in.tag} /\ last_in.matched)
        /\ (last_in.multiple /\ last_in.tag = 0)
             => (a = {} /\ last_in.matched)

\* C7 witness: a multiple ack of tag 1 handled while tags 1 and 2 were pending
C7_Witness ==
  /\ last_in.method = "basic.ack"
  /\ last_in.confirm
  /\ last_in.multiple
  /\ last_in.tag = 1
  /\ last_in.pending_before = {1, 2}
  /\ last_in.pending_after = {2}

\* --------------------------------------------------------- content receive
\* the channel the content arrives on
ContentChannels == {1}

\* a consumer may have been registered on the channel (basic.consume-ok)
InitContent ==
  /\ confirm = [c \in ChannelIds |-> FALSE]
  /\ queues \in {q \in [ChannelIds -> {NoQueues, [NoQueues EXCEPT !.consumer = TRUE]}] :
                   \A c \in ChannelIds \ ContentChannels : q[c] = NoQueues}
  /\ InitRest

NextContent ==
  \/ \E ch \in ContentChannels : on_basic_deliver_received(ch)
  \/ \E ch \in ContentChannels : on_basic_return_received(ch)
  \/ \E ch \in ContentChannels, size \in HeaderSizes :
       handle_content_header_frame(ch, size)
  \/ \E ch \in ContentChannels, size \in BodySizes : handle_body_frame(ch, size)

SpecContent == InitContent /\ [][NextContent]_vars

\* C9: a delivery is handed off as complete only when its body frames total
\* the body_size of its header; a body frame larger than what remains, and a
\* basic.deliver or basic.return received while content is still expected,
\* leave the channel in Error
C9_ContentSizeOrError ==
  /\ \A ch \in ChannelIds : \A i \in 1..Len(completed[ch]) :
       completed[ch][i].got = completed[ch][i].size
  /\ (/\ last_in.method = "body"
      /\ last_in.before.s = "ReceivingContent"
      /\ last_in.size > last_in.before.remaining)
     => last_in.after = Error
  /\ (/\ last_in.method \in {"basic.deliver", "basic.return"}
      /\ last_in.before.s \in {"WillReceiveContent", "ReceivingContent"})
     => last_in.after = Error

\* C20: a content header in WillReceiveContent leads to Connected (size 0)
\* or ReceivingContent(size); a body frame in ReceivingContent leads to Error
\* when larger than what remains, to Connected when equal to it and to
\* ReceivingContent(what is left) otherwise; a delivery is completed by no
\* other step; a header outside WillReceiveContent and a body frame outside
\* ReceivingContent set the channel to Error and the handler returns an error
C20_ContentSteps ==
  LET b == last_in.before
      a == last_in.after
  IN /\ last_in.method = "header" /\ b.s = "WillReceiveContent"
          => a = IF last_in.size = 0 THEN Connected
                 ELSE ReceivingContent(b.q, b.t, last_in.size)
     /\ last_in.method = "body" /\ b.s = "ReceivingContent"
          => a = IF last_in.size > b.remaining THEN Error
                 ELSE IF last_in.size = b.remaining THEN Connected
                 ELSE ReceivingContent(b.q, b.t, b.remaining - last_in.size)
     /\ last_in.done
          => \/ last_in.method = "header" /\ last_in.size = 0
                  /\ b.s = "WillReceiveContent"
             \/ last_in.method = "body" /\ last_in.size = b.remaining
                  /\ b.s = "ReceivingContent"
     /\ \/ last_in.method = "header" /\ b.s # "WillReceiveContent"
        \/ last_in.method = "body" /\ b.s # "ReceivingContent"
          => a = Error /\ last_in.err # NoErr

\* ------------------------------------------------------ the reply registry
\* the caller thread that sends the synchronous methods
SyncThreads == {1}

\* the synchronous methods sent, and the replies the server sends
SyncMethods == {"queue.declare", "confirm.select"}

SyncReplies == {"queue.declare-ok", "confirm.select-ok"}

NextSerialize ==
  \/ \E t \in SyncThreads, ch \in ChannelIds, m \in SyncMethods : sync_method(t, ch, m)
  \/ do_run(TRUE, Blocking)
  \/ \E ch \in ChannelIds, m \in SyncReplies : receive_reply(ch, m)
  \/ parse_error

SpecSerialize == Init /\ [][NextSerialize]_vars

\* the ids of a sequence of expectations
ReplyIds(s) == [i \in 1..Len(s) |-> s[i].id]

\* the expectations of the frames of channel ch that were serialized, in the
\* order of their serialization
SerializedReplies(ch) ==
  LET Expecting(f) == f.channel = ch /\ f.reply # NoReply
      w == SelectSeq(wire, Expecting)
  IN [i \in 1..Len(w) |-> w[i].reply.id]

\* C10: on a channel that met no mismatch, the expectations matched so far
\* followed by those still registered are those of the frames serialized so
\* far, in the order of their serialization and each once, so the N-th one
\* registered is the N-th one matched; frames are serialized in the order of
\* their enqueueing, requeued or not; and no expectation of a frame that is
\* still queued is registered
C10_RepliesFifoPerChannel ==
  /\ \A ch \in ChannelIds :
       chan_state[ch] # Error
       => replied[ch] \o ReplyIds(expected_replies[ch]) = SerializedReplies(ch)
  /\ \A i, j \in 1..Len(wire) :
       (i < j /\ wire[i].priority = wire[j].priority)
       => wire[i].reply.id < wire[j].reply.id
  /\ \A ch \in ChannelIds : \A i \in 1..Len(expected_replies[ch]) :
       \A k \in 1..Len(frames.HIGH) :
         frames.HIGH[k].reply.id # expected_replies[ch][i].id

\* C10 witness: a frame that was requeued was serialized later, before a
\* frame enqueued after it, and its expectation was matched by a reply
C10_Witness ==
  \E ch \in ChannelIds : \E i \in 1..Len(replied[ch]) :
    /\ replied[ch][i] \in requeued
    /\ \E k \in 1..Len(wire) : wire[k].reply.id > replied[ch][i]

\* ------------------------------------------------------ tuning a connection
\* the values a side can ask for: 0 (no preference) and some limits
TuneValues == 0..MaxTune

\* the configurations a side can ask for
TuneConfigurations ==
  [channel_max : TuneValues, frame_max : TuneValues, heartbeat : TuneValues]

\* Connection::connect: the protocol header is queued, the state is
\* SentProtocolHeader and the connect Wait is not resolved
InitConnect ==
  /\ conn_state = "SentProtocolHeader"
  /\ connect_wait = <<>>
  /\ status = "Initial"
  /\ hb_handle = FALSE
  /\ frame_size = Max(MinFrameSize, frame_max)
  /\ frames = [HIGH |-> <<ProtocolHeaderFrame>>, LOW |-> <<>>]
  /\ data_ready = TRUE
  /\ confirm = [c \in ChannelIds |-> FALSE]
  /\ queues = [c \in ChannelIds |-> NoQueues]
  /\ InitIdle

\* the client asks for any configuration
InitTune ==
  /\ channel_max \in TuneValues
  /\ frame_max \in TuneValues
  /\ heartbeat \in TuneValues
  /\ InitConnect

NextTune ==
  \/ on_connection_start_received
  \/ on_connection_secure_received
  \/ \E server \in TuneConfigurations : on_connection_tune_received(server)

SpecTune == InitTune /\ [][NextTune]_vars

\* connection.tune was just handled in SentStartOk
Tuned == last_conn.method = "connection.tune" /\ last_conn.after = "SentOpen"

\* the limit negotiated from the client's c and the server's s
Negotiated(c, s, type_max) ==
  IF c = 0 /\ s # 0 THEN s
  ELSE IF s = 0 /\ c # 0 THEN c
  ELSE IF c # 0 /\ s # 0 THEN Min(c, s)
  ELSE type_max

\* the tune-ok frames the tune handler queued
TuneOkSent ==
  LET IsTuneOk(f) == f.method = "connection.tune-ok"
  IN SelectSeq(last_conn.queue, IsTuneOk)

\* C17: after connection.tune, channel_max and frame_max are the server's
\* value when ours is 0, ours when the server's is 0, the smaller one when
\* both are set and the type's maximum when both are 0, and tune-ok carries
\* the negotiated values
C17_TuneMinRule ==
  Tuned =>
    /\ channel_max = Negotiated(last_conn.client.channel_max,
                                last_conn.server.channel_max, U16Max)
    /\ frame_max = Negotiated(last_conn.client.frame_max,
                              last_conn.server.frame_max, U32Max)
    /\ Len(TuneOkSent) = 1
    /\ TuneOkSent[1].arg.channel_max = channel_max
    /\ TuneOkSent[1].arg.frame_max = frame_max
    /\ TuneOkSent[1].arg.heartbeat = heartbeat

\* the four cases of the rule happened: server only, client only, both, none
C17_Witness ==
  /\ Tuned
  /\ last_conn.client.channel_max = 0 /\ last_conn.server.channel_max = 0
  /\ channel_max = U16Max
  /\ last_conn.client.frame_max > last_conn.server.frame_max
  /\ last_conn.server.frame_max > 0
  /\ frame_max = last_conn.server.frame_max

\* C18: after connection.tune, the heartbeat is the server's when ours is 0
\* or the server's is not 0 and smaller than ours, and ours otherwise
C18_HeartbeatRule ==
  Tuned =>
    LET c == last_conn.client.heartbeat
        s == last_conn.server.heartbeat
    IN /\ heartbeat = IF c = 0 \/ (s # 0 /\ s < c) THEN s ELSE c
       /\ (s = 0 /\ c # 0 => heartbeat = c)
       /\ (heartbeat = 0 <=> c = 0 /\ s = 0)

\* the server asked for no heartbeat and the client's was kept
C18_Witness ==
  /\ Tuned
  /\ last_conn.server.heartbeat = 0
  /\ last_conn.client.heartbeat > 0
  /\ heartbeat = last_conn.client.heartbeat


\* ---------------------------------------------------------- the handshake
\* what the server answers to tune-ok's predecessor, connection.tune
ServerTune == {[channel_max |-> 2, frame_max |-> 10, heartbeat |-> 0]}

\* the client asks for no channel limit and no heartbeat
InitHandshake ==
  /\ channel_max = 0
  /\ frame_max \in FrameMaxValues
  /\ heartbeat = 0
  /\ InitConnect

NextHandshake ==
  \/ on_connection_start_received
  \/ on_connection_secure_received
  \/ \E server \in ServerTune : on_connection_tune_received(server)
  \/ on_connection_open_ok_received
  \/ on_connection_close_received
  \/ ensure_setup
  \/ do_run(TRUE, Blocking)

SpecHandshake == InitHandshake /\ [][NextHandshake]_vars

\* the state each handshake method is accepted in
OwnState(m) ==
  CASE m = "connection.start" -> "SentProtocolHeader"
    [] m = "connection.secure" -> "SentStartOk"
    [] m = "connection.tune" -> "SentStartOk"
    [] m = "connection.open-ok" -> "SentOpen"

HandshakeMethods ==
  {"connection.start", "connection.secure", "connection.tune", "connection.open-ok"}

\* the last event handled was a handshake method outside its own state
Refused ==
  /\ last_conn.method \in HandshakeMethods
  /\ last_conn.before # OwnState(last_conn.method)

\* C21: a handshake method received outside its own state sends no frame,
\* sets the connection to Error and returns InvalidConnectionState with the
\* state it found; received in its own state it is accepted; Connected is
\* entered only from SentOpen by open-ok, and only that step finishes the
\* connect Wait with the connection
C21_HandshakeOwnState ==
  /\ [](Refused => /\ last_conn.after = "Error"
                   /\ last_conn.err = [kind |-> "InvalidConnectionState",
                                       state |-> last_conn.before])
  /\ [](last_conn.method \in HandshakeMethods /\ ~Refused
          => last_conn.err.kind = "none" /\ last_conn.after # "Error")
  /\ [][Refused' /\ last_conn' # last_conn
          => frames' = frames /\ conn_state' = "Error"
             /\ connect_wait' = connect_wait]_vars
  /\ [][conn_state' = "Connected" /\ conn_state # "Connected"
          => conn_state = "SentOpen" /\ last_conn'.method = "connection.open-ok"]_vars
  /\ [][connect_wait' # connect_wait
          /\ connect_wait'[Len(connect_wait')] = "Connection"
          => conn_state = "SentOpen" /\ conn_state' = "Connected"]_vars

\* connection.tune arrived after open was sent and was refused
C21_Witness ==
  /\ last_conn.method = "connection.tune"
  /\ last_conn.before = "SentOpen"
  /\ conn_state = "Error"
  /\ connect_wait = <<>>

\* C22: when connection.close came to a Connected connection whose loop was
\* set up, the loop is not left before close-ok was taken from the frame
\* queue and the send buffer written out
C22_CloseOkWrittenBeforeExit ==
  (/\ last_conn.method = "connection.close"
   /\ last_conn.before = "Connected"
   /\ last_conn.status = "Setup"
   /\ loop_exited)
    => /\ \E i \in 1..Len(wire) : wire[i].method = "connection.close-ok"
       /\ available_data(send_buffer) = 0

\* C12: the Wait of Connection::connect is resolved at most once, whatever
\* handshake frames, connection.close frames and write errors come
C12_ConnectResolvedOnce == Len(connect_wait) <= 1

\* the connect Wait was finished with the connection and a connection.close
\* was handled after it
C12_Witness ==
  /\ connect_wait = <<"Connection">>
  /\ last_conn.method = "connection.close"
  /\ last_conn.before = "Connected"

\* C14: a connection.close received during the handshake fails the connect
\* Wait with ConnectionRefused, leaves close-ok alone in the frame queue and
\* the connection Closed; a write error in SentProtocolHeader fails the
\* connect Wait with ConnectionRefused as well
C14_RefusedDuringHandshake ==
  /\ last_conn.method = "connection.close" /\ last_conn.before \in HandshakeStates
       => /\ connect_wait = <<"ConnectionRefused">>
          /\ last_conn.queue = <<ConnectionMethod("connection.close-ok", NoArg)>>
          /\ conn_state = "Closed"
  /\ last_conn.method = "write error" /\ last_conn.before = "SentProtocolHeader"
       => connect_wait = <<"ConnectionRefused">>

\* connection.close came while start-ok was still waiting to be written
C14_Witness ==
  /\ last_conn.method = "connection.close"
  /\ last_conn.before = "SentStartOk"
  /\ connect_wait = <<"ConnectionRefused">>
  /\ \E i \in 1..Len(wire) : wire[i].type = "ProtocolHeader"
  /\ \A i \in 1..Len(wire) : wire[i].method # "connection.start-ok"



\* ------------------------------------------------- Waits of a failed scope
\* the channel the synchronous methods go to, and the methods
WaitChannels == {1}

WaitMethods == {"queue.declare", "basic.get"}

NextWaits ==
  \/ on_connection_start_received
  \/ \E server \in ServerTune : on_connection_tune_received(server)
  \/ on_connection_open_ok_received
  \/ on_connection_close_received
  \/ ensure_setup
  \/ do_run(TRUE, Blocking)
  \/ \E t \in SyncThreads, ch \in WaitChannels, m \in WaitMethods :
       conn_state = "Connected" /\ sync_method(t, ch, m)
  \/ \E ch \in WaitChannels : on_basic_get_empty_received(ch)
  \/ parse_error

SpecWaits == InitHandshake /\ [][NextWaits]_vars

\* C11: once a channel is Error or Closed and its handler has returned, no
\* Wait the handler took off the registry is left unresolved, and once the
\* I/O loop has ended the connect Wait is resolved
C11_WaitsFailedWithScope ==
  /\ \A ch \in ChannelIds :
       chan_state[ch].s \in {"Error", "Closed"} /\ handler = NoHandler
         => \A i \in 1..Len(unresolved) : unresolved[i].channel # ch
  /\ ~should_continue => connect_wait # <<>>



\* ------------------------------------------------- channel.close received
\* the channel.close the server answers queue.bind with: NOT_FOUND or
\* PRECONDITION_FAILED, for queue.bind (class 50, method 20)
ServerCloses ==
  {[code |-> 404, class_id |-> 50, method_id |-> 20],
   [code |-> 406, class_id |-> 50, method_id |-> 20]}

NextChannelClose ==
  \/ \E t \in SyncThreads, ch \in ChannelIds : sync_method(t, ch, "queue.bind")
  \/ do_run(TRUE, Blocking)
  \/ \E ch \in ChannelIds, method \in ServerCloses :
       on_channel_close_received(ch, method)

SpecChannelClose == Init /\ [][NextChannelClose]_vars

\* the frames of a sequence
FrameSet(q) == {q[i] : i \in 1..Len(q)}

\* C15: a channel.close received instead of the expected reply leaves the
\* channel Closed with no expectation pending, close-ok queued or written,
\* and each Wait it failed has an error carrying the reply code, class id and
\* method id of that channel.close
C15_CloseFailsWaitWithReply ==
  /\ \A i \in 1..Len(failed) :
       /\ chan_state[failed[i].channel] = Closed
       /\ expected_replies[failed[i].channel] = <<>>
       /\ \A j \in 1..Len(replied[failed[i].channel]) :
            replied[failed[i].channel][j] # failed[i].id
       /\ \E f \in FrameSet(frames.HIGH) \cup FrameSet(wire) :
            f.channel = failed[i].channel /\ f.method = "channel.close-ok"
       /\ failed[i].error.code = failed[i].cause.code
       /\ failed[i].error.class_id = failed[i].cause.class_id
       /\ failed[i].error.method_id = failed[i].cause.method_id



\* --------------------------------------------------- content frames sent
\* the frame_max values negotiated, down to less than the frame overhead
SmallFrameMax == {7, 8, 9, 10}

\* the payloads published
ChunkPayloads == {<<>>, <<1, 2, 3>>}

InitChunks ==
  /\ frame_max \in SmallFrameMax
  /\ channel_max = U16Max
  /\ heartbeat = 0
  /\ conn_state = "Connected"
  /\ connect_wait = <<"Connection">>
  /\ status = "Setup"
  /\ hb_handle = FALSE
  /\ frame_size = Max(MinFrameSize, frame_max)
  /\ frames = [HIGH |-> <<>>, LOW |-> <<>>]
  /\ data_ready = FALSE
  /\ confirm = [c \in ChannelIds |-> FALSE]
  /\ queues = [c \in ChannelIds |-> NoQueues]
  /\ InitIdle

NextChunks ==
  \/ \E t \in Threads, ch \in ChannelIds, p \in ChunkPayloads : basic_publish(t, ch, p)
  \/ \E t \in Threads : on_basic_publish_sent(t)
  \/ \E t \in Threads : send_content_header(t)
  \/ \E t \in Threads : send_content_body(t)

SpecChunks == InitChunks /\ [][NextChunks]_vars

\* the content frames of publish p in the LOW queue
ContentFrames(p) ==
  LET OfPublish(f) == ContentOf(f, p) IN SelectSeq(frames.LOW, OfPublish)

RECURSIVE Concat(_)
\* the payloads of a sequence of frames, one after the other
Concat(fs) == IF fs = <<>> THEN <<>> ELSE Head(fs).payload \o Concat(Tail(fs))

\* C19: a publish whose content was enqueued left, in the LOW queue, one
\* Header frame with the payload's length and then ceil(L / (F - 8)) Body
\* frames, each non-empty and of at most F - 8 bytes, that make up the
\* payload; no publish stops on the subtraction or on a chunk size of 0
C19_ContentFramesChunked ==
  /\ \A t \in Threads : pc[t] # "panicked"
  /\ \A p \in 1..Len(publishes) :
       (publishes[p].mode # "sent" /\ \A t \in Threads : cur[t].pub # p)
         => LET fs == ContentFrames(p)
                L == Len(publishes[p].payload)
                n == Len(fs) - 1
            IN /\ Len(fs) >= 1
               /\ fs[1].type = "Header" /\ fs[1].body_size = L
               /\ fs[1].channel = publishes[p].channel
               /\ \A i \in 2..Len(fs) :
                    /\ fs[i].type = "Body"
                    /\ fs[i].channel = publishes[p].channel
                    /\ fs[i].payload # <<>>
                    /\ Len(fs[i].payload) <= frame_max - FrameOverhead
               /\ Concat(Tail(fs)) = publishes[p].payload
               /\ n * (frame_max - FrameOverhead) >= L
               /\ n > 0 => (n - 1) * (frame_max - FrameOverhead) < L



\* ------------------------------------------------------------- heartbeat
\* the heartbeat negotiated, in seconds
HeartbeatValues == {1}

\* the connection has just become Connected with a heartbeat negotiated; the
\* I/O loop is not set up yet
InitHeartbeat ==
  /\ frame_max \in FrameMaxValues
  /\ channel_max = U16Max
  /\ heartbeat \in HeartbeatValues
  /\ conn_state = "Connected"
  /\ connect_wait = <<"Connection">>
  /\ status = "Initial"
  /\ hb_handle = FALSE
  /\ frame_size = Max(MinFrameSize, frame_max)
  /\ frames = [HIGH |-> <<>>, LOW |-> <<>>]
  /\ data_ready = FALSE
  /\ confirm = [c \in ChannelIds |-> FALSE]
  /\ queues = [c \in ChannelIds |-> NoQueues]
  /\ InitIdle


NextHeartbeat ==
  \/ ensure_setup
  \/ heartbeat_thread
  \/ poll_ready(writable_event) /\ do_run(writable_event, Blocking)
  \/ \E t \in SyncThreads, ch \in WaitChannels : sync_method(t, ch, "queue.declare")

SpecHeartbeat == InitHeartbeat /\ [][NextHeartbeat]_vars

\* the I/O thread is in the poll of do_run and no token or event is there
\* to make the poll return
parked == status = "Setup" /\ should_continue /\ ~poll_ready(writable_event)

\* C13: with a heartbeat negotiated and the connection Connected, the I/O
\* thread is never parked in the poller while the heartbeat flag is raised:
\* a raised flag is followed by a heartbeat frame with no socket event and no
\* caller to wake the loop
C13_RaisedFlagWakesLoop ==
  (heartbeat > 0 /\ conn_state = "Connected" /\ send_heartbeat) => ~parked



\* ------------------------------------------------- connection.blocked
\* the caller thread that publishes, and what it publishes
BlockedThreads == {1}

BlockedPayloads == {<<1, 2>>}

NextBlocked ==
  \/ \E t \in BlockedThreads, ch \in PublishChannels, p \in BlockedPayloads :
       basic_publish(t, ch, p)
  \/ \E t \in BlockedThreads : on_basic_publish_sent(t)
  \/ \E t \in BlockedThreads : send_content_header(t)
  \/ \E t \in BlockedThreads : send_content_body(t)
  \/ on_connection_blocked_received
  \/ on_connection_unblocked_received
  \/ poll_ready(writable_event) /\ do_run(writable_event, Writable)

\* the I/O thread is a thread of its own: a pass of its loop that can be
\* made is made
SpecBlocked ==
  /\ Init
  /\ [][NextBlocked]_vars
  /\ WF_vars(poll_ready(writable_event) /\ do_run(writable_event, Writable))

\* the LOW frames dequeued for the wire, in order
LowWire == LET IsLow(f) == f.priority = "LOW" IN SelectSeq(wire, IsLow)

RECURSIVE BodyFrames(_, _, _)
\* the Body frames of the chunks of a publish
BodyFrames(ch, p, chunks) ==
  IF chunks = <<>> THEN <<>>
  ELSE <<BodyFrame(ch, p, Head(chunks))>> \o BodyFrames(ch, p, Tail(chunks))

RECURSIVE EnqueueOrder(_)
\* the content frames of the first n publishes, in the order one caller
\* enqueues them
EnqueueOrder(n) ==
  IF n = 0 THEN <<>>
  ELSE EnqueueOrder(n - 1)
       \o <<HeaderFrame(publishes[n].channel, n, Len(publishes[n].payload))>>
       \o BodyFrames(publishes[n].channel, n,
                     Chunks(publishes[n].payload, frame_max - FrameOverhead))

\* s is the beginning of t
IsPrefix(s, t) == Len(s) <= Len(t) /\ s = SubSeq(t, 1, Len(s))

\* every frame is out: the LOW queue and the send buffer are empty
AllWritten == frames.LOW = <<>> /\ available_data(send_buffer) = 0

NextExit ==
  \/ ensure_setup
  \/ heartbeat_thread
  \/ poll_ready(writable_event) /\ do_run(writable_event, Blocking)
  \/ \E t \in SyncThreads, ch \in WaitChannels : sync_method(t, ch, "queue.declare")
  \/ on_connection_close_received
  \/ run_exit

SpecExit == InitHeartbeat /\ [][NextExit]_vars

\* C23: when the I/O thread has finished, with Ok or with the error of
\* do_run, a heartbeat thread that was started has been unparked and joined
C23_HeartbeatJoinedOnExit ==
  io_thread # "running" => ~hb_handle

\* ------------------------------------------- frames taken off the frame queue
NextTake ==
  \/ \E t \in SyncThreads, ch \in ChannelIds, m \in SyncMethods : sync_method(t, ch, m)
  \/ \E g \in GenOutcomes : do_run_gen(TRUE, Blocking, g)

SpecTake == Init /\ [][NextTake]_vars

\* the frame queue as serialize finds it: after the heartbeat of the pass
queued ==
  IF send_heartbeat THEN FramesPush(frames, HeartbeatFrame) ELSE frames

\* the ids of the expectations of the frames in the frame queue
QueuedIds == {frames.HIGH[k].reply.id : k \in 1..Len(frames.HIGH)}

\* the ids of the expectations of the frames serialized
WireIds == {wire[k].reply.id : k \in 1..Len(wire)}

\* the ids of the expectations in the registries of the channels
RegisteredIds ==
  UNION {{expected_replies[ch][k].id : k \in 1..Len(expected_replies[ch])} :
           ch \in ChannelIds}

\* C25: a frame taken from the frame queue is the oldest of the highest
\* priority, and it is either written to the send buffer, off the queue and
\* its expectation registered; or, when it does not fit, back where it was,
\* the buffer compacted, nothing registered and the connection state left as
\* it was by the serialization; or the connection is in Error with
\* SerialisationError and nothing was registered. No frame is lost or
\* serialized twice, and an expectation is registered only for a serialized
\* frame
C25_TakenFrameOutcomes ==
  /\ [][last_take' # last_take =>
         LET f == last_take'.frame
         IN /\ ~FramesEmpty(queued) /\ f = FramesNext(queued)
            /\ last_take'.outcome \in {"sent", "requeued", "error"}
            /\ last_take'.outcome = "sent" =>
                 /\ gen_frame(available_space(send_buffer), f) = "Ok"
                 /\ wire' = Append(wire, f)
                 /\ frames' = FramesPop(queued)
                 /\ expected_replies' = MarkSent(expected_replies, f)
            /\ last_take'.outcome = "requeued" =>
                 /\ gen_frame(available_space(send_buffer), f) = "BufferTooSmall"
                 /\ wire' = wire
                 /\ frames' = queued
                 /\ expected_replies' = expected_replies
                 /\ send_buffer'.end <= available_data(send_buffer)
                 /\ conn_state' = conn_state \/ last_conn'.method = "write error"
            /\ last_take'.outcome = "error" =>
                 /\ conn_state' = "Error"
                 /\ last_conn'.err.kind = "SerialisationError"
                 /\ io_thread' = "Err"
                 /\ wire' = wire
                 /\ expected_replies' = expected_replies]_vars
  /\ [](\A i, j \in 1..Len(wire) :
          i < j /\ wire[i].reply # NoReply => wire[i].reply.id # wire[j].reply.id)
  /\ [](\A id \in 1..enqueued :
          \/ id \in QueuedIds /\ id \notin WireIds
          \/ id \in WireIds /\ id \notin QueuedIds
          \/ /\ last_take.outcome = "error" /\ last_take.frame.reply.id = id
             /\ id \notin QueuedIds \cup WireIds)
  /\ [](RegisteredIds \subseteq WireIds)

\* C25 witness: a frame that was requeued has been serialized and another
\* frame met a serialization error
C25_Witness ==
  /\ last_take.outcome = "error"
  /\ \E id \in requeued : id \in WireIds
  /\ last_take.frame.reply.id \notin requeued

\* ------------------------------------------------ reading the inbound stream
\* the frames the server sends: a heartbeat, a method frame whose handler
\* returns an error, bytes that are no frame
ReadKinds == {"heartbeat", "unexpected", "garbage"}

\* the sizes of the pieces the stream arrives in
Pieces == {1, 7, 8, 9, 16}

NextRead ==
  \/ \E kind \in ReadKinds : server_sends(kind)
  \/ \E n \in Pieces : socket_readable(n)
  \/ do_run_read(Steady)

SpecRead == Init /\ [][NextRead]_vars

\* the bytes of the frames the server sent and that were not dispatched
Undispatched == receive_data \o net

\* the poll of do_run has nothing to return
quiescent == ~readable_event /\ ~poll_ready(writable_event)

\* C26: however the stream is cut into reads, the frames passed to
\* handle_frame are the frames sent, in order and each once; the bytes not
\* yet dispatched are all there, in order, an incomplete frame having
\* consumed none; the connection is in Error only after bytes that are no
\* frame or a frame whose handler failed, and then the loop has ended with
\* the error; and the loop does not wait in the poll with a whole frame in
\* the receive buffer or with bytes arrived
C26_FramesDispatchedOnce ==
  /\ \A i \in 1..Len(dispatched) : dispatched[i].frame = i
  /\ Len(Undispatched) = (sent_in - Len(dispatched)) * FrameOverhead
  /\ \A j \in 1..Len(Undispatched) :
       /\ Undispatched[j].frame = Len(dispatched) + ((j - 1) \div FrameOverhead) + 1
       /\ Undispatched[j].n = ((j - 1) % FrameOverhead) + 1
  /\ Len(receive_data) = available_data(receive_buffer)
  /\ conn_state = "Error" <=>
       \/ dispatched # <<>> /\ dispatched[Len(dispatched)].kind = "unexpected"
       \/ receive_data # <<>> /\ receive_data[1].kind = "garbage" /\ io_thread = "Err"
  /\ conn_state = "Error" <=> io_thread = "Err"
  /\ (io_thread = "running" /\ quiescent) => receive_data = <<>> /\ arrived = 0

\* C26 witness: two frames were dispatched and the first bytes of a third
\* wait in the receive buffer, the loop running
C26_Witness ==
  /\ Len(dispatched) = 2
  /\ receive_data # <<>>
  /\ Len(receive_data) < FrameOverhead
  /\ io_thread = "running"

\* ------------------------------------------------- the end of the outer loop
\* the frames the server sends: heartbeats, and close-ok once asked to close
LoopKinds ==
  {"heartbeat"} \cup (IF conn_state = "Closing" THEN {"connection.close-ok"} ELSE {})

\* the read branch and parse of the pass have nothing to do
nothing_to_read == ~can_read /\ ~readable_event /\ receive_data = <<>>

NextLoop ==
  \/ ensure_setup
  \/ \E t \in SyncThreads : connection_close(t)
  \/ nothing_to_read /\ poll_ready(writable_event) /\ do_run(writable_event, Writable)
  \/ \E kind \in LoopKinds : server_sends(kind)
  \/ \E n \in Pieces : socket_readable(n)
  \/ do_run_read(Steady)
  \/ run_exit

SpecLoop == InitHeartbeat /\ [][NextLoop]_vars

\* C24: with the connection Closed or in Error the I/O thread has ended, or
\* is leaving its loop, or has a poll that returns (an event or a token is
\* there, or bytes are still on their way); no byte is read from the socket
\* while the connection is Closed; and the thread ends with Ok only when the
\* connection is Closed or in Error, and with an error only when in Error
C24_LoopEndsWhenClosed ==
  /\ [](conn_state \in {"Closed", "Error"} /\ io_thread = "running"
          => loop_exited \/ ~quiescent \/ net # <<>>)
  /\ [][conn_state = "Closed" => Len(net') >= Len(net)]_vars
  /\ [][io_thread = "running" /\ io_thread' = "Ok"
          => conn_state \in {"Closed", "Error"}]_vars
  /\ [][io_thread = "running" /\ io_thread' = "Err" => conn_state' = "Error"]_vars

\* ------------------------------------------------- writing the send buffer
\* a socket that may take part of the bytes or none, and does not fail
Slow == {"Ok", "Partial", "WouldBlock"}

NextWrite ==
  \/ \E t \in SyncThreads, ch \in WaitChannels : sync_method(t, ch, "queue.declare")
  \/ poll_ready(writable_event) /\ do_run(writable_event, Slow)

SpecWrite == Init /\ [][NextWrite]_vars

\* C27: with a socket that takes part of the bytes or would block, the
\* connection does not go to Error, and bytes are left in the send buffer
\* after a pass only with has_data set or the DATA token raised, so that the
\* write branch is taken when the socket is writable again
C27_NoBytesStranded ==
  /\ conn_state # "Error"
  /\ available_data(send_buffer) > 0 => has_data \/ data_ready

\* ------------------------------------- HIGH frames of a blocked connection
NextBlockedHigh ==
  \/ \E t \in BlockedThreads, ch \in PublishChannels : basic_ack(t, ch)
  \/ \E t \in BlockedThreads, ch \in PublishChannels : sync_method(t, ch, "queue.declare")
  \/ on_connection_blocked_received
  \/ on_connection_unblocked_received
  \/ poll_ready(writable_event) /\ do_run(writable_event, Writable)

SpecBlockedHigh == Init /\ [][NextBlockedHigh]_vars

\* C28: a pass of the I/O loop that takes the DATA event while the connection
\* is blocked and a HIGH frame is queued serializes a frame for the socket
C28_HighWrittenWhileBlocked ==
  [][(blocked /\ frames.HIGH # <<>> /\ data_ready /\ ~data_ready')
       => wire' # wire]_vars

\* ------------------------------------------------------- basic.get-empty
NextGetEmpty ==
  \/ \E t \in SyncThreads, ch \in WaitChannels, m \in WaitMethods : sync_method(t, ch, m)
  \/ do_run(TRUE, Writable)
  \/ \E ch \in WaitChannels : on_basic_get_empty_received(ch)
  \/ parse_error

SpecGetEmpty == Init /\ [][NextGetEmpty]_vars

\* the Waits that were failed with the error kind, by the ids of their
\* expectations
FailedWith(kind) ==
  {failed[i].id : i \in {j \in 1..Len(failed) : failed[j].error.kind = kind}}

\* C29: basic.get-empty takes the oldest expectation of the channel: an
\* AwaitingBasicGetOk is resolved and the channel state stays; with another
\* one or none the channel is in Error, UnexpectedReply is returned, and the
\* Waits of all the expectations the channel had, the one taken included, are
\* failed with UnexpectedReply
C29_GetEmptyConsumesOldest ==
  [][inbound' = inbound + 1 =>
       \A ch \in WaitChannels :
         LET reg == expected_replies[ch]
         IN IF reg # <<>> /\ Head(reg).kind = "AwaitingBasicGetOk"
            THEN /\ replied'[ch] = Append(replied[ch], Head(reg).id)
                 /\ expected_replies'[ch] = Tail(reg)
                 /\ chan_state'[ch] = chan_state[ch]
                 /\ io_err' = NoErr
            ELSE /\ chan_state'[ch] = Error
                 /\ io_err' = "UnexpectedReply"
                 /\ expected_replies'[ch] = <<>>
                 /\ \A k \in 1..Len(reg) : reg[k].id \in FailedWith("UnexpectedReply")']_vars

\* C30: a basic.deliver for a consumer tag that is not registered leaves the
\* channel as it was, and the content header that follows it does not set the
\* channel to Error
C30_UnknownConsumerAbsorbed ==
  [][\A ch \in ContentChannels :
       /\ (/\ last_in'.method = "basic.deliver" /\ last_in'.channel = ch
           /\ last_in' # last_in
           /\ ~queues[ch].consumer /\ chan_state[ch] = Connected)
            => chan_state'[ch] = Connected
       /\ (/\ last_in.method = "basic.deliver" /\ last_in.channel = ch
           /\ last_in.after = Connected /\ ~queues[ch].consumer
           /\ last_in'.method = "header" /\ last_in'.channel = ch)
            => chan_state'[ch].s # "Error"]_vars

\* ------------------------------------------- publishes after confirm.select
\* what a frame that reaches the server makes it answer: a confirm.select puts
\* the channel in confirm mode on the server and is answered with
\* confirm.select-ok; from then on the server counts the publishes of the
\* channel from 1, and acks each with its number when its content is complete
RECURSIVE ServerAnswers(_, _, _)
ServerAnswers(w, selected, tags) ==
  IF w = <<>> THEN <<>>
  ELSE LET f == Head(w)
           n == Cardinality({p \in DOMAIN tags : tags[p].channel = f.channel})
       IN IF f.type = "Method" /\ f.method = "confirm.select"
          THEN <<[channel |-> f.channel, method |-> "confirm.select-ok", tag |-> 0]>>
               \o ServerAnswers(Tail(w), selected \cup {f.channel}, tags)
          ELSE IF f.type = "Method" /\ f.method = "basic.publish"
                  /\ f.channel \in selected
          THEN ServerAnswers(Tail(w), selected,
                 [p \in DOMAIN tags \cup {f.pub} |->
                    IF p = f.pub THEN [channel |-> f.channel, tag |-> n + 1]
                    ELSE tags[p]])
          ELSE IF f.type = "Header" /\ f.body_size = 0 /\ f.pub \in DOMAIN tags
          THEN <<[channel |-> f.channel, method |-> "basic.ack",
                  tag |-> tags[f.pub].tag]>>
               \o ServerAnswers(Tail(w), selected, tags)
          ELSE ServerAnswers(Tail(w), selected, tags)

\* the next frame the server has for the client: its answers to the frames
\* written so far, in order, less those the client has received
server_answer(m, ch, tag) ==
  LET a == ServerAnswers(wire, {}, << >>)
  IN /\ inbound < Len(a)
     /\ a[inbound + 1] = [channel |-> ch, method |-> m, tag |-> tag]

\* the publishes written after a confirm.select of their channel was written
AfterSelect ==
  {wire[j].pub : j \in {k \in 1..Len(wire) :
      /\ wire[k].type = "Method" /\ wire[k].method = "basic.publish"
      /\ \E i \in 1..(k - 1) : /\ wire[i].type = "Method"
                               /\ wire[i].method = "confirm.select"
                               /\ wire[i].channel = wire[k].channel}}

NextSelect ==
  \/ \E t \in ConfirmThreads, ch \in PublishChannels :
       sync_method(t, ch, "confirm.select")
  \/ \E t \in ConfirmThreads, ch \in PublishChannels : basic_publish(t, ch, <<>>)
  \/ \E t \in ConfirmThreads : on_basic_publish_sent(t)
  \/ \E t \in ConfirmThreads : send_content_header(t)
  \/ do_run(TRUE, Writable)
  \/ \E ch \in PublishChannels :
       server_answer("confirm.select-ok", ch, 0)
       /\ receive_reply(ch, "confirm.select-ok")
  \/ \E ch \in PublishChannels, tag \in AckTags :
       server_answer("basic.ack", ch, tag)
       /\ on_basic_ack_received(ch, tag, FALSE)
  \/ acknowledgement_error
  \/ parse_error

SpecSelect == Init /\ [][NextSelect]_vars

\* C31: every basic.publish enqueued on a channel after confirm.select was sent
\* on it has a pending tag registered, also when confirm.select-ok has not
\* been received yet; so every ack the server sends for such a publish matches
\* a pending tag and the channel is never closed with PRECONDITION_FAILED
C31_PublishAfterSelectRegistered ==
  /\ \A p \in AfterSelect : publishes[p].mode # "plain"
  /\ last_in.method = "basic.ack" => last_in.matched
  /\ \A i \in 1..Len(chan_errors) : chan_errors[i].error # "PreconditionFailed"

====
